---- MODULE Spec2Model ----
(***************************************************************************)
(* A model of the AI browser assistant of grolab:                          *)
(*   - AIClient (src/src/ai-client.js): complete() with its retry loop,    *)
(*     per-attempt abort timer and the three wire-response translations;   *)
(*   - AIBrowserAssistant (src/unnamed/part_001 and src/src/background.js, *)
(*     two copies of the background service worker that differ in a few    *)
(*     handlers): message routing, chat turns, tool-call dispatch.         *)
(* JavaScript values are tagged records so that undefined, null, strings,  *)
(* numbers, arrays and objects stay distinguishable.                       *)
(***************************************************************************)
EXTENDS Integers, Sequences, FiniteSets, TLC

(***************************************************************************)
(* Bounds of the model                                                     *)
(***************************************************************************)
\* largest maxRetries a caller passes to the AIClient constructor
MaxCfgRetries == 3
\* longest content-block list of an Anthropic wire response
MaxBlocks == 2

(***************************************************************************)
(* JavaScript values                                                       *)
(***************************************************************************)
Undef == [t |-> "undefined"]
Null == [t |-> "null"]
Num(n) == [t |-> "number", v |-> n]
Str(s) == [t |-> "string", v |-> s]
Arr(s) == [t |-> "array", v |-> s]
Obj(o) == [t |-> "object", v |-> o]

\* JavaScript truthiness, as used by || and if; plain objects (records
\* without a tag) are truthy
Truthy(x) ==
  CASE "t" \notin DOMAIN x -> TRUE
    [] x.t = "undefined" -> FALSE
    [] x.t = "null" -> FALSE
    [] x.t = "number" -> x.v # 0
    [] x.t = "string" -> x.v # ""
    [] OTHER -> TRUE

\* a || b
JsOr(a, b) == IF Truthy(a) THEN a ELSE b

\* x is null or undefined (the test behind ?. and ??); plain objects are
\* records without a tag
IsNullish(x) == "t" \in DOMAIN x /\ x.t \in {"undefined", "null"}

RECURSIVE Pow2(_)
Pow2(n) == IF n <= 0 THEN 1 ELSE 2 * Pow2(n - 1)

Last(s) == s[Len(s)]

RECURSIVE SeqsUpTo(_, _)
SeqsUpTo(S, n) ==
  IF n = 0 THEN {<<>>}
  ELSE LET shorter == SeqsUpTo(S, n - 1)
       IN shorter \cup {Append(s, e) : s \in {q \in shorter : Len(q) = n - 1}, e \in S}

(***************************************************************************)
(* JSON text of the flat argument objects tool calls carry                 *)
(***************************************************************************)
\* property order of the argument objects (insertion order in the source)
KeyOrder == <<"description", "selector", "url">>

JsonObjects ==
  { [k \in {} |-> ""],
    [description |-> "submit button"],
    [url |-> "https://example.com"],
    [description |-> "submit button", selector |-> "#go"] }

RECURSIVE StringifyFrom(_, _, _)
StringifyFrom(o, i, first) ==
  IF i > Len(KeyOrder) THEN ""
  ELSE IF KeyOrder[i] \in DOMAIN o
       THEN (IF first THEN "" ELSE ",")
            \o "\"" \o KeyOrder[i] \o "\":\"" \o o[KeyOrder[i]] \o "\""
            \o StringifyFrom(o, i + 1, FALSE)
       ELSE StringifyFrom(o, i + 1, first)

\* JSON.stringify of a flat object of strings
JSONstringify(o) == "{" \o StringifyFrom(o, 1, TRUE) \o "}"

\* JSON.parse: the object whose JSON text this is, or a SyntaxError
JSONparse(s) ==
  IF \E o \in JsonObjects : JSONstringify(o) = s
  THEN [ok |-> TRUE, value |-> CHOOSE o \in JsonObjects : JSONstringify(o) = s]
  ELSE [ok |-> FALSE, value |-> [k \in {} |-> ""]]

(***************************************************************************)
(* Wire responses of the three providers (bodies of HTTP 2xx responses)    *)
(***************************************************************************)
WireToolCallsOpenAI ==
  { [id |-> Str("call_1"), type |-> Str("function"),
     function |-> [name |-> Str("click_element"),
                   arguments |-> Str(JSONstringify([description |-> "submit button"]))]],
    [id |-> Str("call_2"), type |-> Str("function"),
     function |-> [name |-> Str("navigate"),
                   arguments |-> Str(JSONstringify([url |-> "https://example.com"]))]] }

OpenAIMessages ==
  { [content |-> c, tool_calls |-> tc] :
      c \in {Null, Str(""), Str("hi")},
      tc \in {Undef} \cup {Arr(s) : s \in SeqsUpTo(WireToolCallsOpenAI, 2)} }

\* body of an OpenAI chat completion
OpenAIData ==
  { [choices |-> Undef, usage |-> Undef], [choices |-> Arr(<<>>), usage |-> Undef] }
  \cup { [choices |-> Arr(<<[message |-> m]>>), usage |-> Num(7)] : m \in OpenAIMessages }

AnthropicBlocks ==
  { [type |-> "text", text |-> Str("hi")],
    [type |-> "text", text |-> Str("")],
    [type |-> "tool_use", id |-> Str("toolu_1"), name |-> Str("click_element"),
     input |-> [description |-> "submit button", selector |-> "#go"]],
    [type |-> "tool_use", id |-> Str("toolu_2"), name |-> Str("navigate"),
     input |-> [url |-> "https://example.com"]] }

\* body of an Anthropic message
AnthropicData ==
  { [content |-> Undef, usage |-> Undef] }
  \cup { [content |-> Arr(s), usage |-> Num(7)] : s \in SeqsUpTo(AnthropicBlocks, MaxBlocks) }

\* body of an Ollama chat response
LocalData ==
  { [message |-> Undef], [message |-> [content |-> Undef]],
    [message |-> [content |-> Str("")]], [message |-> [content |-> Str("hi")]] }

WireData(p) ==
  CASE p = "openai" -> OpenAIData
    [] p = "anthropic" -> AnthropicData
    [] p = "local" -> LocalData
    [] OTHER -> {}

(***************************************************************************)
(* AIClient: translation of a 2xx body into the canonical response         *)
(***************************************************************************)
Thrown(err) == [ok |-> FALSE, error |-> err, value |-> Undef]
Returned(v) == [ok |-> TRUE, error |-> Undef, value |-> v]

\* an Error object: name, HTTP status (0 when the error carries none), kind of message
Error(name, status, msg) == [name |-> name, status |-> status, msg |-> msg]

MapOpenAIToolCall(tc) ==
  [id |-> tc.id, function |-> [name |-> tc.function.name, arguments |-> tc.function.arguments]]

callOpenAI(data) ==
  LET choice == IF IsNullish(data.choices) \/ Len(data.choices.v) = 0
                THEN Undef ELSE data.choices.v[1]
  IN IF choice = Undef
     THEN Thrown(Error("Error", 0, "no_choice"))
     ELSE Returned(
            [content |-> JsOr(choice.message.content, Str("")),
             tool_calls |->
               IF IsNullish(choice.message.tool_calls)
               THEN Null
               ELSE Arr([i \in 1..Len(choice.message.tool_calls.v) |->
                          MapOpenAIToolCall(choice.message.tool_calls.v[i])]),
             usage |-> data.usage])

MapAnthropicToolUse_NoStringify(tu) ==
  [id |-> tu.id, function |-> [name |-> tu.name, arguments |-> Obj(tu.input)]]

MapAnthropicToolUse(tu) ==
  [id |-> tu.id, function |-> [name |-> tu.name, arguments |-> Str(JSONstringify(tu.input))]]

callAnthropic(data) ==
  LET blocks == IF IsNullish(data.content) THEN <<>> ELSE data.content.v
      texts == SelectSeq(blocks, LAMBDA c : c.type = "text")
      textContent == IF Len(texts) = 0 THEN Str("") ELSE JsOr(texts[1].text, Str(""))
      toolUses == SelectSeq(blocks, LAMBDA c : c.type = "tool_use")
  IN Returned(
       [content |-> textContent,
        tool_calls |-> IF Len(toolUses) > 0
                       THEN Arr([i \in 1..Len(toolUses) |-> MapAnthropicToolUse(toolUses[i])])
                       ELSE Null,
        usage |-> data.usage])

callLocal(data) ==
  Returned(
    [content |-> IF IsNullish(data.message) THEN Str("")
                 ELSE JsOr(data.message.content, Str("")),
     tool_calls |-> Null])

\* the switch of complete() over the provider tag, applied to a 2xx body
Translate(p, data) ==
  CASE p = "openai" -> callOpenAI(data)
    [] p = "anthropic" -> callAnthropic(data)
    [] OTHER -> callLocal(data)

(***************************************************************************)
(* AIClient: constructor and the error classification of complete()        *)
(***************************************************************************)
Providers == {"openai", "anthropic", "local"}

\* HTTP statuses a backend answers with
Statuses == {200, 400, 401, 403, 404, 429, 500, 503}

\* configurations passed to new AIClient(config)
ClientConfigs ==
  { [provider |-> p, maxRetries |-> m] :
      p \in {Undef, Str("openai"), Str("anthropic"), Str("local"), Str("mistral")},
      m \in {Undef} \cup {Num(n) : n \in 0..MaxCfgRetries} }

\* o.f of a plain object: undefined when the property is missing
Get(o, f) == IF f \in DOMAIN o THEN o[f] ELSE Undef

\* o?.f
GetOpt(o, f) == IF IsNullish(o) THEN Undef ELSE Get(o, f)

\* constructor: the fields complete() and the call* methods read
AIClient(config) ==
  [provider |-> JsOr(Get(config, "provider"), Str("openai")).v,
   apiKey |-> Get(config, "apiKey"),
   maxRetries |-> JsOr(Get(config, "maxRetries"), Num(2)).v,
   timeout |-> JsOr(Get(config, "timeout"), Num(60000)).v]

TimeoutError == Error("Error", 0, "timeout")
AuthError == Error("Error", 0, "auth")
AbortError == Error("AbortError", 0, "aborted")
HttpError(status) == Error("Error", status, "http")
NetworkError == Error("TypeError", 0, "network")
UnknownProviderError == Error("Error", 0, "unknown_provider")

IsAuthStatus_Only401(status) == status = 401

IsAuthStatus(status) == status = 401 \/ status = 403

IsClientError(status) == status = 400

IsRetryable_OneFewer(att, maxR, status) ==
  att < maxR - 1 /\ (status = 429 \/ status >= 500)

\* the retry condition of the catch block
IsRetryable(att, maxR, status) ==
  att < maxR /\ (status = 429 \/ status >= 500)

BackoffDelay_OffByOne(att) == Pow2(att + 1) * 1000

\* Math.pow(2, attempt) * 1000 milliseconds
BackoffDelay(att) == Pow2(att) * 1000

\* a catch block that retries whatever failed while retries are left
Catch_RetryAny(error, att, maxR) ==
  IF att < maxR
  THEN [next |-> "retry", error |-> error, delay |-> BackoffDelay(att)]
  ELSE [next |-> "throw", error |-> error, delay |-> 0]

\* the catch block of complete(): what is thrown, or the delay before the retry
Catch(error, att, maxR) ==
  IF error.name = "AbortError"
  THEN [next |-> "throw", error |-> TimeoutError, delay |-> 0]
  ELSE IF IsAuthStatus(error.status)
  THEN [next |-> "throw", error |-> AuthError, delay |-> 0]
  ELSE IF IsClientError(error.status)
  THEN [next |-> "throw", error |-> error, delay |-> 0]
  ELSE IF IsRetryable(att, maxR, error.status)
  THEN [next |-> "retry", error |-> error, delay |-> BackoffDelay(att)]
  ELSE [next |-> "throw", error |-> error, delay |-> 0]

(***************************************************************************)
(* AIClient.complete(): state of one call                                  *)
(***************************************************************************)
VARIABLES
  cfg,         \* the config object the client was constructed from
  client,      \* the constructed client: provider, maxRetries
  pc,          \* "idle", "fetch", "errbody", "okbody", "backoff", "done"
  attempt,     \* loop variable of complete()
  lastError,   \* lastError of complete()
  httpStatus,  \* status of the non-2xx response whose body is being read
  timerArmed,  \* the setTimeout of the current attempt is pending
  result,      \* how complete() ended: pending, returned value or thrown error
  attempts,    \* number of fetch() calls made by this call of complete()
  delays,      \* the backoff delays waited so far, in milliseconds
  outcomes,    \* per finished attempt: how it ended
  data,        \* the 2xx body read in the last attempt
  timers       \* the pending setTimeout timers of complete(), and when each
               \* attempt started and ended

VARIABLES
  build,       \* which copy of the service worker runs: "part_001" or "background"
  store,       \* chrome.storage.local: the value under 'ai_config' (SpecStorage: the whole area)
  cache,       \* StorageManager.cache: the entry for 'ai_config' (SpecStorage: the whole Map)
  ai,          \* this.ai: null or the AIClient
  initialized, \* this.initialized
  sessions,    \* this.sessions: tab -> session object (0 when the tab has none)
  objs,        \* the session objects: history, pageContext, lastActivity
  turns,       \* the chat messages received: progress of each handleChat
  lastReply,   \* the response delivered by the step just taken, if any
  now          \* Date.now()

orchVars == <<build, store, cache, ai, initialized, sessions, objs, turns,
              lastReply, now>>

clientVars == <<cfg, client, pc, attempt, lastError, httpStatus, timerArmed,
                result, attempts, delays, outcomes, data, timers>>

VARIABLES
  doc,         \* the document of the page: the elements of its body, in document order
  effects,     \* what the last tool call did to the page, in order
  toolResult,  \* what the last execute_tool message was answered with
  panel        \* the side panel: its loading flag, its input box, its StorageManager's
               \* cache of ai_config and where each call of sendMessage stands

pageVars == <<doc, effects, toolResult, panel>>

\* no page is observed
PageIdle ==
  /\ doc = <<>>
  /\ effects = <<>>
  /\ toolResult = Undef
  /\ panel = Undef

(***************************************************************************)
(* AIBrowserAssistant: data                                                *)
(***************************************************************************)
\* bounds of the orchestrator model
\* chat messages received over a run
MaxTurns == 2
\* longest tool-call list of a provider response
MaxCalls == 2
MAX_HISTORY_PER_TAB == 20

Tabs == {1, 2}
Builds == {"part_001", "background"}

\* configurations found in storage or sent with set_config
AIConfigs ==
  { [provider |-> p, apiKey |-> k] :
      p \in {Str("openai"), Str("local")}, k \in {Str(""), Str("sk-1")} }

EmptyObj == [k \in {} |-> ""]

NoCache == [has |-> FALSE, value |-> Undef]

\* StorageManager.get(key): cached value, else the stored one (cached), else
\* null when the read fails
StorageGet(c, st, readOk) ==
  IF c.has THEN [value |-> c.value, cache |-> c]
  ELSE IF readOk THEN [value |-> st, cache |-> [has |-> TRUE, value |-> st]]
  ELSE [value |-> Null, cache |-> c]

\* StorageManager.set(key, value): write-through, false when the write fails
StorageSet(c, st, v, writeOk) ==
  IF writeOk THEN [ok |-> TRUE, store |-> v, cache |-> [has |-> TRUE, value |-> v]]
  ELSE [ok |-> FALSE, store |-> st, cache |-> c]

NoSession == [history |-> <<>>, pageContext |-> Null, lastActivity |-> 0]

\* the tool calls a provider response can carry: an element click with
\* well-formed arguments, one with malformed arguments, a navigation with
\* malformed arguments
CallKinds ==
  { [name |-> "click_element", arguments |-> JSONstringify([description |-> "submit button"])],
    [name |-> "click_element", arguments |-> "{\"description\": subm"],
    [name |-> "navigate", arguments |-> "{\"url\": https"] }

CallIds == <<"call_1", "call_2", "call_3", "call_4">>

MkCalls(kinds) ==
  [i \in 1..Len(kinds) |->
     [id |-> Str(CallIds[i]),
      function |-> [name |-> Str(kinds[i].name), arguments |-> Str(kinds[i].arguments)]]]

ToolCallLists == {MkCalls(k) : k \in SeqsUpTo(CallKinds, MaxCalls)}

\* canonical responses complete() returns to the orchestrator; the local
\* variant never carries tool calls
ModelResponses(provider) ==
  {[content |-> Str("answer"), tool_calls |-> Null]}
  \cup (IF provider = "local" THEN {}
        ELSE {[content |-> Str(""), tool_calls |-> Arr(l)] : l \in ToolCallLists})

NotConfigured == [kind |-> "error", message |-> "AI not configured. Please set API key in settings."]

\* what the page executor answers to execute_tool{tool, params}:
\* navigate assigns location.href and reports success whatever the url;
\* click_element throws on a missing description (reported as success=false
\* by the listener) and otherwise succeeds or fails with the page
ExecReplies(tool, params) ==
  IF tool = "navigate" THEN {TRUE}
  ELSE IF tool = "click_element" /\ "description" \in DOMAIN params THEN {TRUE, FALSE}
  ELSE {FALSE}

\* ways a chrome.tabs.sendMessage of execute_tool ends
SendOutcomes(tool, params) ==
  {[fate |-> "unreachable", success |-> FALSE]}
  \cup {[fate |-> "reply", success |-> ok] : ok \in ExecReplies(tool, params)}

\* entry pushed by the catch block of executeToolCalls
FailureResult(call, msg) ==
  [success |-> FALSE, error |-> Str(msg), tool |-> call.function.name, re |-> call.id]

\* entry pushed for an executor reply (re: the call the reply answers)
ExecResult(call, ok) ==
  [success |-> ok, error |-> IF ok THEN Undef ELSE Str("executor error"),
   tool |-> Undef, re |-> call.id]

\* params of the execute_tool message for a call
Params(b, call) ==
  LET parsed == JSONparse(call.function.arguments.v)
  IN IF parsed.ok THEN parsed.value ELSE EmptyObj

\* the test the side panel applies before it sends a chat message: the
\* configuration has no API key and its provider is not local
LacksKey(config) ==
  ~Truthy(GetOpt(config, "apiKey")) /\ GetOpt(config, "provider") # Str("local")

NoTurn ==
  [pc |-> "none", tab |-> 0, session |-> 0, lacksKey |-> FALSE, provider |-> "",
   calls |-> <<>>, next |-> 1, outstanding |-> {}, results |-> <<>>, log |-> <<>>,
   fetches |-> 0, refused |-> FALSE, content |-> Undef, messages |-> <<>>]

Dispatch_AllAtOnce(b, t) ==
  [t EXCEPT !.outstanding = t.next..Len(t.calls),
            !.next = Len(t.calls) + 1,
            !.log = @ \o [i \in 1..(Len(t.calls) - t.next + 1) |->
                            [ev |-> "send", call |-> t.next + i - 1, fate |-> ""]]]

\* the for loop of executeToolCalls, run from call t.next until a message is
\* in flight or the list is exhausted: background.js parses the arguments
\* inside the try (a SyntaxError becomes a failure entry and the loop goes on),
\* part_001 falls back to empty params
RECURSIVE Dispatch(_, _)
Dispatch(b, t) ==
  IF t.next > Len(t.calls) THEN t
  ELSE LET call == t.calls[t.next]
           parsed == JSONparse(call.function.arguments.v)
       IN IF b = "background" /\ ~parsed.ok
          THEN Dispatch(b, [t EXCEPT !.results = Append(@, FailureResult(call, "SyntaxError")),
                                     !.next = @ + 1,
                                     !.log = Append(@, [ev |-> "local", call |-> t.next,
                                                        fate |-> "parse"])])
          ELSE [t EXCEPT !.outstanding = {t.next},
                         !.next = @ + 1,
                         !.log = Append(@, [ev |-> "send", call |-> t.next, fate |-> ""])]

\* trimHistory
trimHistory(b, history) ==
  IF Len(history) > MAX_HISTORY_PER_TAB
  THEN IF b = "part_001"
       THEN SubSeq(history, Len(history) - MAX_HISTORY_PER_TAB + 1, Len(history))
       ELSE LET sys == {i \in 1..Len(history) : history[i].role = "system"}
                startIdx == IF sys = {} THEN 0
                            ELSE CHOOSE i \in sys : \A j \in sys : i <= j
            IN (IF startIdx + 1 <= Len(history) THEN <<history[startIdx + 1]>> ELSE <<>>)
               \o SubSeq(history, Len(history) - (MAX_HISTORY_PER_TAB - 1) + 1, Len(history))
  ELSE history

OrchIdle ==
  /\ build = "part_001"
  /\ store = Undef
  /\ cache = NoCache
  /\ ai = Null
  /\ initialized = FALSE
  /\ sessions = [t \in Tabs |-> 0]
  /\ objs = [k \in 1..MaxTurns |-> NoSession]
  /\ turns = [k \in 1..MaxTurns |-> NoTurn]
  /\ lastReply = Undef
  /\ now = 0

Pending == [state |-> "pending", error |-> Undef, value |-> Undef]

NoTimers == [pending |-> {}, starts |-> <<>>, ends |-> <<>>]

\* a timer whose due time does not count from the start of the attempt
ArmTimer_Absolute(pending, a, t0, timeout) ==
  pending \cup {[kind |-> "abort", attempt |-> a, due |-> timeout]}

\* setTimeout(() => controller.abort(), this.timeout) at the top of attempt a,
\* at time t0
ArmTimer(pending, a, t0, timeout) ==
  pending \cup {[kind |-> "abort", attempt |-> a, due |-> t0 + timeout]}

\* setTimeout(resolve, delay) of the backoff wait after attempt a
ArmBackoff(pending, a, t0, delay) ==
  pending \cup {[kind |-> "backoff", attempt |-> a, due |-> t0 + delay]}

\* clearTimeout(timeoutId) of attempt a, in finally
ClearTimer(pending, a) == {t \in pending : ~(t.kind = "abort" /\ t.attempt = a)}

\* a timer that fired is no longer pending
Fired(pending, kind) == {t \in pending : t.kind # kind}

Outcome(kind, status, aborted) == [kind |-> kind, status |-> status, aborted |-> aborted]

InitClient ==
  /\ cfg \in ClientConfigs
  /\ client = AIClient(cfg)
  /\ pc = "idle"
  /\ attempt = 0
  /\ lastError = Undef
  /\ httpStatus = 0
  /\ timerArmed = FALSE
  /\ result = Pending
  /\ attempts = 0
  /\ delays = <<>>
  /\ outcomes = <<>>
  /\ data = Undef
  /\ timers = NoTimers
  /\ OrchIdle
  /\ PageIdle

\* top of the for loop with loop variable a: the switch over the provider
\* issues the fetch, or throws for an unknown provider
BeginAttempt(a) ==
  /\ attempt' = a
  /\ IF a > client.maxRetries
     THEN /\ pc' = "done"
          /\ result' = [state |-> "thrown", error |-> lastError, value |-> Undef]
          /\ timerArmed' = FALSE
          /\ timers' = [timers EXCEPT !.pending = {}]
          /\ UNCHANGED <<lastError, attempts, delays, outcomes>>
     ELSE IF client.provider \in Providers
     THEN /\ pc' = "fetch"
          /\ timerArmed' = TRUE
          /\ attempts' = attempts + 1
          /\ timers' = [timers EXCEPT !.pending = ArmTimer({}, a, now, client.timeout),
                                      !.starts = Append(@, now)]
          /\ UNCHANGED <<lastError, result, delays, outcomes>>
     ELSE LET c == Catch(UnknownProviderError, a, client.maxRetries)
          IN /\ lastError' = UnknownProviderError
             /\ timers' =
                  [pending |-> IF c.next = "throw" THEN {}
                               ELSE ArmBackoff(ArmTimer({}, a, now, client.timeout),
                                               a, now, c.delay),
                   starts |-> Append(timers.starts, now),
                   ends |-> Append(timers.ends, now)]
             /\ outcomes' = Append(outcomes, Outcome("unknown_provider", 0, FALSE))
             /\ pc' = IF c.next = "throw" THEN "done" ELSE "backoff"
             /\ result' = IF c.next = "throw"
                          THEN [state |-> "thrown", error |-> c.error, value |-> Undef]
                          ELSE result
             /\ delays' = IF c.next = "retry" THEN Append(delays, c.delay) ELSE delays
             /\ timerArmed' = (c.next = "retry")
             /\ UNCHANGED attempts

\* the attempt threw error: catch block, then finally when the call ends
Caught(error, aborted, timerStill) ==
  LET c == Catch(error, attempt, client.maxRetries)
  IN /\ lastError' = error
     /\ outcomes' = Append(outcomes, Outcome(error.msg, error.status, aborted))
     /\ pc' = IF c.next = "throw" THEN "done" ELSE "backoff"
     /\ result' = IF c.next = "throw"
                  THEN [state |-> "thrown", error |-> c.error, value |-> Undef]
                  ELSE result
     /\ delays' = IF c.next = "retry" THEN Append(delays, c.delay) ELSE delays
     /\ timerArmed' = IF c.next = "throw" THEN FALSE ELSE timerStill
     /\ timers' =
          [timers EXCEPT
             !.pending = IF c.next = "throw" THEN {}
                         ELSE ArmBackoff(IF timerStill THEN @ ELSE ClearTimer(@, attempt),
                                         attempt, now, c.delay),
             !.ends = Append(@, now)]
     /\ UNCHANGED <<attempt, attempts>>

\* a caller invokes complete()
complete ==
  /\ pc = "idle"
  /\ BeginAttempt(0)
  /\ UNCHANGED <<cfg, client, httpStatus, data, orchVars, pageVars>>

\* fetch resolves with a response carrying this status
FetchResponds(status) ==
  /\ pc = "fetch"
  /\ IF status >= 200 /\ status <= 299
     THEN /\ pc' = "okbody"
          /\ UNCHANGED <<httpStatus, lastError, outcomes, result, delays, timerArmed,
                         attempt, attempts, timers>>
     ELSE IF client.provider = "local"
     THEN /\ Caught(HttpError(status), FALSE, timerArmed)
          /\ UNCHANGED httpStatus
     ELSE /\ pc' = "errbody"
          /\ httpStatus' = status
          /\ UNCHANGED <<lastError, outcomes, result, delays, timerArmed,
                         attempt, attempts, timers>>
  /\ UNCHANGED <<cfg, client, data, orchVars, pageVars>>

\* fetch rejects without a response (connection refused, DNS failure)
FetchFails ==
  /\ pc = "fetch"
  /\ Caught(NetworkError, FALSE, timerArmed)
  /\ UNCHANGED <<cfg, client, httpStatus, data, orchVars, pageVars>>

\* the body of a non-2xx response is read (or fails to parse): the hosted
\* variants throw an Error carrying the status
ErrorBodyRead ==
  /\ pc = "errbody"
  /\ Caught(HttpError(httpStatus), FALSE, timerArmed)
  /\ UNCHANGED <<cfg, client, httpStatus, data, orchVars, pageVars>>

\* the body of a 2xx response is read and translated
BodyRead(d) ==
  /\ pc = "okbody"
  /\ data' = d
  /\ LET r == Translate(client.provider, d)
     IN IF r.ok
        THEN /\ pc' = "done"
             /\ result' = [state |-> "returned", error |-> Undef, value |-> r.value]
             /\ outcomes' = Append(outcomes, Outcome("ok", 200, FALSE))
             /\ timerArmed' = FALSE
             /\ timers' = [timers EXCEPT !.pending = {}, !.ends = Append(@, now)]
             /\ UNCHANGED <<lastError, delays, attempt, attempts>>
        ELSE Caught(r.error, FALSE, timerArmed)
  /\ UNCHANGED <<cfg, client, httpStatus, orchVars, pageVars>>

\* the attempt's timer fires: controller.abort()
\*  - fetch pending, or 2xx body being read: the await rejects with AbortError
\*  - non-2xx body being read: response.json() rejects inside the inner
\*    try/catch of callOpenAI / callAnthropic, which falls back to the
\*    "HTTP <status>" message and throws the Error carrying the status
\*  - backoff wait (finally has not run yet): nothing is in flight
TimerFires ==
  /\ timerArmed
  /\ pc \in {"fetch", "okbody", "errbody", "backoff"}
  /\ IF pc \in {"fetch", "okbody"}
     THEN Caught(AbortError, TRUE, FALSE)
     ELSE IF pc = "errbody"
     THEN Caught(HttpError(httpStatus), TRUE, FALSE)
     ELSE /\ timerArmed' = FALSE
          /\ timers' = [timers EXCEPT !.pending = Fired(@, "abort")]
          /\ UNCHANGED <<pc, lastError, outcomes, result, delays, attempt, attempts>>
  /\ UNCHANGED <<cfg, client, httpStatus, data, orchVars, pageVars>>

\* the backoff promise resolves: continue, finally clears the timer, attempt++
BackoffElapses ==
  /\ pc = "backoff"
  /\ BeginAttempt(attempt + 1)
  /\ UNCHANGED <<cfg, client, httpStatus, data, orchVars, pageVars>>

NextClient ==
  \/ complete
  \/ \E status \in Statuses : FetchResponds(status)
  \/ FetchFails
  \/ ErrorBodyRead
  \/ \E d \in WireData(client.provider) : BodyRead(d)
  \/ TimerFires
  \/ BackoffElapses

(***************************************************************************)
(* AIBrowserAssistant: start-up, message routing, chat turns               *)
(***************************************************************************)
ClientIdle ==
  /\ cfg = [provider |-> Undef, maxRetries |-> Undef]
  /\ client = AIClient(cfg)
  /\ pc = "idle"
  /\ attempt = 0
  /\ lastError = Undef
  /\ httpStatus = 0
  /\ timerArmed = FALSE
  /\ result = Pending
  /\ attempts = 0
  /\ delays = <<>>
  /\ outcomes = <<>>
  /\ data = Undef
  /\ timers = NoTimers

\* the service worker as constructed, over whatever chrome.storage.local holds
InitOrch ==
  /\ build \in Builds
  /\ store \in {Undef} \cup AIConfigs
  /\ cache = NoCache
  /\ ai = Null
  /\ initialized = FALSE
  /\ sessions = [t \in Tabs |-> 0]
  /\ objs = [k \in 1..MaxTurns |-> NoSession]
  /\ turns = [k \in 1..MaxTurns |-> NoTurn]
  /\ lastReply = Undef
  /\ now = 0
  /\ ClientIdle
  /\ PageIdle

\* init(): the client exists only when the stored config carries an apiKey
init(readOk) ==
  /\ ~initialized
  /\ LET got == StorageGet(cache, store, readOk)
         config == got.value
     IN /\ cache' = got.cache
        /\ ai' = IF Truthy(GetOpt(config, "apiKey"))
                 THEN AIClient([provider |-> JsOr(Get(config, "provider"), Str("openai")),
                                apiKey |-> Get(config, "apiKey")])
                 ELSE ai
  /\ initialized' = TRUE
  /\ lastReply' = Undef
  /\ UNCHANGED <<build, store, sessions, objs, turns, now, clientVars, pageVars>>

\* the guard of handleMessage that answers 'AI not configured':
\* part_001 services every administrative action before it, background.js
\* exempts get_config and set_config only
Refused(b, theAi, action) ==
  /\ theAi = Null
  /\ IF b = "part_001"
     THEN action \notin {"get_config", "set_config", "clear_history", "get_history"}
     ELSE action \notin {"get_config", "set_config"}

\* how the promise of handleMessage settles
Resolved(v) == [rejected |-> FALSE, value |-> v, message |-> ""]
Rejected(msg) == [rejected |-> TRUE, value |-> Undef, message |-> msg]

Respond_NoCatch(settled) ==
  IF settled.rejected THEN Undef ELSE settled.value

\* handleMessage(...).then(sendResponse).catch(error => sendResponse({error})):
\* the value passed to sendResponse
Respond(settled) ==
  IF settled.rejected THEN [kind |-> "error", message |-> settled.message]
  ELSE settled.value

\* the response sendResponse delivers for a message
Reply(action, tab, turn, aiWas, reply) ==
  [action |-> action, tab |-> tab, turn |-> turn, aiWasNull |-> (aiWas = Null),
   reply |-> reply]

\* message get_config
GetConfig(readOk) ==
  /\ initialized
  /\ LET got == StorageGet(cache, store, readOk)
     IN /\ cache' = got.cache
        /\ lastReply' =
             Reply("get_config", 0, 0, ai,
                   [kind |-> "config",
                    value |-> IF build = "part_001" /\ ~Truthy(got.value)
                              THEN EmptyObj ELSE got.value])
  /\ UNCHANGED <<build, store, ai, initialized, sessions, objs, turns, now, clientVars, pageVars>>

\* message set_config{config}: updateConfig stores the config (a failed write
\* is swallowed by StorageManager.set) and always creates a client
SetConfig(config, writeOk) ==
  /\ initialized
  /\ LET put == StorageSet(cache, store, config, writeOk)
     IN /\ store' = put.store
        /\ cache' = put.cache
  /\ ai' = AIClient([provider |-> Get(config, "provider"), apiKey |-> Get(config, "apiKey")])
  /\ lastReply' = Reply("set_config", 0, 0, ai, [kind |-> "success"])
  /\ UNCHANGED <<build, initialized, sessions, objs, turns, now, clientVars, pageVars>>

\* message clear_history{tabId}
ClearHistory(tab) ==
  /\ initialized
  /\ IF Refused(build, ai, "clear_history")
     THEN /\ lastReply' = Reply("clear_history", tab, 0, ai, NotConfigured)
          /\ UNCHANGED sessions
     ELSE /\ sessions' = [sessions EXCEPT ![tab] = 0]
          /\ lastReply' = Reply("clear_history", tab, 0, ai, [kind |-> "success"])
  /\ UNCHANGED <<build, store, cache, ai, initialized, objs, turns, now, clientVars, pageVars>>

\* a get_history that creates the session it does not find
GetHistory_Creates(tab) ==
  /\ initialized
  /\ lastReply' = Reply("get_history", tab, 0, ai, [kind |-> "history", history |-> <<>>])
  /\ sessions' = [sessions EXCEPT ![tab] = IF @ = 0 THEN tab ELSE @]
  /\ UNCHANGED <<build, store, cache, ai, initialized, objs, turns, now, clientVars, pageVars>>

\* message get_history{tabId}
GetHistory(tab) ==
  /\ initialized
  /\ lastReply' =
       Reply("get_history", tab, 0, ai,
             IF Refused(build, ai, "get_history") THEN NotConfigured
             ELSE [kind |-> "history",
                   history |-> IF sessions[tab] = 0 THEN <<>>
                               ELSE objs[sessions[tab]].history])
  /\ UNCHANGED <<build, store, cache, ai, initialized, sessions, objs, turns, now, clientVars, pageVars>>

UserMessage(k) == [role |-> "user", content |-> Str("hello"), turn |-> k]
AssistantMessage(k, content) == [role |-> "assistant", content |-> content, turn |-> k]

\* push the assistant message on the turn's session object and trim it
PushAndTrim(o, t, k, content) ==
  [o EXCEPT ![t.session].history =
     trimHistory(build, Append(@, AssistantMessage(k, content)))]

\* this.ai.complete() is called: the first fetch of the call is issued
CallProvider(t) ==
  [t EXCEPT !.provider = ai.provider,
            !.fetches = @ + (IF ai.provider \in Providers THEN 1 ELSE 0)]

\* JSON.stringify of an entry of the result list: the reply of the executor or
\* the failure entry, a property that is undefined being left out
StringifyResult(r) ==
  "{\"success\":" \o (IF r.success THEN "true" ELSE "false")
  \o (IF r.error = Undef THEN "" ELSE ",\"error\":\"" \o r.error.v \o "\"")
  \o (IF r.tool = Undef THEN "" ELSE ",\"tool\":\"" \o r.tool.v \o "\"")
  \o "}"

\* every tool message is tagged with the id of the first tool call
ToolMessages_FirstId(b, t) ==
  <<[role |-> "assistant",
     content |-> IF b = "part_001" THEN JsOr(t.content, Str("")) ELSE t.content,
     tool_calls |-> t.calls]>>
  \o [i \in 1..Len(t.results) |->
        [role |-> "tool", tool_call_id |-> t.calls[1].id,
         content |-> StringifyResult(t.results[i])]]

\* the messages the second complete() of handleChat is given after the
\* session history: the assistant message with the tool calls of the first
\* response (part_001 replaces a missing content by ''), then
\* results.map((r, i) => ({role: 'tool', tool_call_id: tool_calls[i].id, ...}))
ToolMessages(b, t) ==
  <<[role |-> "assistant",
     content |-> IF b = "part_001" THEN JsOr(t.content, Str("")) ELSE t.content,
     tool_calls |-> t.calls]>>
  \o [i \in 1..Len(t.results) |->
        [role |-> "tool", tool_call_id |-> t.calls[i].id,
         content |-> StringifyResult(t.results[i])]]

\* after executeToolCalls the turn asks the provider as it did at first, ready
\* to execute the tool calls of the answer
AfterTools_Loop(t) ==
  IF t.outstanding = {} /\ t.next > Len(t.calls)
  THEN CallProvider([t EXCEPT !.pc = "model1"])
  ELSE t

\* executeToolCalls has returned: the second provider call is made
AfterTools(t) ==
  IF t.outstanding = {} /\ t.next > Len(t.calls)
  THEN CallProvider([t EXCEPT !.pc = "model2",
                              !.messages = objs[t.session].history \o ToolMessages(build, t)])
  ELSE t

\* what is kept of a turn once its response is delivered
Finished(t, refused) ==
  [NoTurn EXCEPT !.pc = "done", !.lacksKey = t.lacksKey, !.fetches = t.fetches,
                 !.refused = refused]

\* message chat{message, tabId}: refused without a client, else handleChat
\* up to its first await of the provider
Chat(k, tab) ==
  /\ initialized
  /\ turns[k].pc = "none"
  /\ \A j \in 1..(k - 1) : turns[j].pc # "none"
  /\ IF Refused(build, ai, "chat")
     THEN /\ turns' = [turns EXCEPT ![k] = Finished([NoTurn EXCEPT !.lacksKey = LacksKey(store)], TRUE)]
          /\ lastReply' = Reply("chat", tab, k, ai, NotConfigured)
          /\ UNCHANGED <<sessions, objs>>
     ELSE LET sid == IF sessions[tab] = 0 THEN k ELSE sessions[tab]
              fresh == IF sessions[tab] = 0
                       THEN [objs EXCEPT ![k] = [NoSession EXCEPT !.lastActivity = now]]
                       ELSE objs
          IN /\ sessions' = [sessions EXCEPT ![tab] = sid]
             /\ objs' = [fresh EXCEPT ![sid].lastActivity = now,
                                      ![sid].history = Append(@, UserMessage(k))]
             /\ turns' = [turns EXCEPT ![k] =
                     CallProvider([NoTurn EXCEPT !.pc = "model1", !.tab = tab,
                                                 !.session = sid,
                                                 !.lacksKey = LacksKey(store)])]
             /\ lastReply' = Undef
  /\ UNCHANGED <<build, store, cache, ai, initialized, now, clientVars, pageVars>>

\* a final answer that puts the session of the turn back under its tab
ModelResponds_Recreates(k, r) ==
  /\ turns[k].pc \in {"model1", "model2"}
  /\ r \in ModelResponses(turns[k].provider)
  /\ LET t == turns[k]
         hasCalls == ~IsNullish(r.tool_calls) /\ Len(r.tool_calls.v) > 0
     IN IF t.pc = "model1" /\ hasCalls
        THEN /\ turns' = [turns EXCEPT ![k] =
                    AfterTools(Dispatch(build,
                      [t EXCEPT !.pc = "tools", !.calls = r.tool_calls.v,
                                !.content = r.content]))]
             /\ lastReply' = Undef
             /\ UNCHANGED <<objs, sessions>>
        ELSE /\ objs' = PushAndTrim(objs, t, k, r.content)
             /\ sessions' = [sessions EXCEPT ![t.tab] = t.session]
             /\ turns' = [turns EXCEPT ![k] = Finished(t, FALSE)]
             /\ lastReply' =
                  Reply("chat", t.tab, k, ai,
                        [kind |-> "chat", response |-> r.content, actions |-> t.results,
                         usedTools |-> [i \in 1..Len(t.calls) |-> t.calls[i].function.name]])
  /\ UNCHANGED <<build, store, cache, ai, initialized, now, clientVars, pageVars>>

\* a complete() of turn k returns response r
ModelResponds(k, r) ==
  /\ turns[k].pc \in {"model1", "model2"}
  /\ r \in ModelResponses(turns[k].provider)
  /\ LET t == turns[k]
         hasCalls == ~IsNullish(r.tool_calls) /\ Len(r.tool_calls.v) > 0
     IN IF t.pc = "model1" /\ hasCalls
        THEN /\ turns' = [turns EXCEPT ![k] =
                    AfterTools(Dispatch(build,
                      [t EXCEPT !.pc = "tools", !.calls = r.tool_calls.v,
                                !.content = r.content]))]
             /\ lastReply' = Undef
             /\ UNCHANGED objs
        ELSE /\ objs' = PushAndTrim(objs, t, k, r.content)
             /\ turns' = [turns EXCEPT ![k] = Finished(t, FALSE)]
             /\ lastReply' =
                  Reply("chat", t.tab, k, ai,
                        [kind |-> "chat", response |-> r.content, actions |-> t.results,
                         usedTools |-> [i \in 1..Len(t.calls) |-> t.calls[i].function.name]])
  /\ UNCHANGED <<build, store, cache, ai, initialized, sessions, now, clientVars, pageVars>>

\* a failed provider call that takes the user message of the turn back
ModelFails_Rollback(k) ==
  /\ turns[k].pc \in {"model1", "model2"}
  /\ turns' = [turns EXCEPT ![k] = Finished(@, FALSE)]
  /\ objs' = [objs EXCEPT ![turns[k].session].history =
                 SelectSeq(@, LAMBDA m : m # UserMessage(k))]
  /\ lastReply' = Reply("chat", turns[k].tab, k, ai, Respond(Rejected("provider error")))
  /\ UNCHANGED <<build, store, cache, ai, initialized, sessions, now, clientVars, pageVars>>

\* a complete() of turn k throws: handleMessage rejects and the listener
\* answers {error: message}
ModelFails(k) ==
  /\ turns[k].pc \in {"model1", "model2"}
  /\ turns' = [turns EXCEPT ![k] = Finished(@, FALSE)]
  /\ lastReply' = Reply("chat", turns[k].tab, k, ai, Respond(Rejected("provider error")))
  /\ UNCHANGED <<build, store, cache, ai, initialized, sessions, objs, now, clientVars, pageVars>>

\* the sendMessage of call i of turn k settles: the executor's reply, or a
\* rejection when no executor is reachable in the tab
ToolSettles(k, i, o) ==
  /\ turns[k].pc = "tools"
  /\ i \in turns[k].outstanding
  /\ LET t == turns[k]
         call == t.calls[i]
     IN /\ o \in SendOutcomes(call.function.name.v, Params(build, call))
        /\ LET entry == IF o.fate = "unreachable"
                        THEN FailureResult(call, "Could not establish connection")
                        ELSE ExecResult(call, o.success)
               settled == [t EXCEPT !.results = Append(@, entry),
                                    !.outstanding = @ \ {i},
                                    !.log = Append(@, [ev |-> "recv", call |-> i,
                                                       fate |-> o.fate])]
           IN turns' = [turns EXCEPT ![k] =
                  IF settled.outstanding = {}
                  THEN AfterTools(Dispatch(build, settled))
                  ELSE settled]
  /\ lastReply' = Undef
  /\ UNCHANGED <<build, store, cache, ai, initialized, sessions, objs, now, clientVars, pageVars>>

\* no chat turn is awaiting the provider or the executor
NoTurnInFlight == \A k \in 1..MaxTurns : turns[k].pc \in {"none", "done"}

\* a sender that waits for the response of its chat message before the next
SerialChat(k, tab) == NoTurnInFlight /\ Chat(k, tab)

\* responses of a provider that asks for no tool call
PlainResponses == { r \in ModelResponses("openai") : IsNullish(r.tool_calls) }

SettleOutcomes == [fate : {"unreachable", "reply"}, success : BOOLEAN]

\* configuration and administrative messages around serial chat turns that
\* need no tool
NextAdmin ==
  \/ \E readOk \in BOOLEAN : init(readOk)
  \/ \E readOk \in BOOLEAN : GetConfig(readOk)
  \/ \E config \in AIConfigs, writeOk \in BOOLEAN : SetConfig(config, writeOk)
  \/ \E tab \in Tabs : ClearHistory(tab)
  \/ \E tab \in Tabs : GetHistory(tab)
  \/ \E k \in 1..MaxTurns, tab \in Tabs : SerialChat(k, tab)
  \/ \E k \in 1..MaxTurns, r \in PlainResponses : ModelResponds(k, r)
  \/ \E k \in 1..MaxTurns : ModelFails(k)

\* the service worker started over a stored configuration that carries a key
InitTurns ==
  /\ build \in Builds
  /\ store \in {c \in AIConfigs : Truthy(c.apiKey)}
  /\ cache = [has |-> TRUE, value |-> store]
  /\ ai = AIClient([provider |-> JsOr(Get(store, "provider"), Str("openai")),
                    apiKey |-> Get(store, "apiKey")])
  /\ initialized = TRUE
  /\ sessions = [t \in Tabs |-> 0]
  /\ objs = [k \in 1..MaxTurns |-> NoSession]
  /\ turns = [k \in 1..MaxTurns |-> NoTurn]
  /\ lastReply = Undef
  /\ now = 0
  /\ ClientIdle
  /\ PageIdle

\* serial chat turns with every tool-call list the provider can answer
NextTurns ==
  \/ \E k \in 1..MaxTurns, tab \in Tabs : SerialChat(k, tab)
  \/ \E k \in 1..MaxTurns, r \in ModelResponses("openai") : ModelResponds(k, r)
  \/ \E k \in 1..MaxTurns : ModelFails(k)
  \/ \E k \in 1..MaxTurns, i \in 1..MaxCalls, o \in SettleOutcomes : ToolSettles(k, i, o)

vars == <<clientVars, orchVars, pageVars>>

SpecClient == InitClient /\ [][NextClient]_vars

SpecAdmin == InitOrch /\ [][NextAdmin]_vars

SpecTurns == InitTurns /\ [][NextTurns]_vars

(***************************************************************************)
(* Properties of AIClient.complete(), checked under SpecClient             *)
(***************************************************************************)
RetryableStatus(status) == status = 429 \/ (status >= 500 /\ status <= 599)

\* the first n finished attempts all failed with 429 or 5xx
FirstFailedRetryable(n) ==
  /\ n <= Len(outcomes)
  /\ \A i \in 1..n : outcomes[i].kind = "http" /\ RetryableStatus(outcomes[i].status)

\* C1: for every configured maxRetries >= 0, 0 included, one call of complete()
\* makes at most maxRetries+1 network attempts (maxRetries as passed to the
\* constructor).
C1_AttemptsWithinConfigured ==
  cfg.maxRetries.t = "number" => attempts <= cfg.maxRetries.v + 1

\* C2: an attempt whose deadline fires while it is in flight ends complete()
\* at once with the timeout error: it is the last attempt, no backoff follows
\* it, and the error thrown is the timeout error, not an HTTP-status error.
C2_DeadlineEndsCall ==
  \A i \in 1..Len(outcomes) :
    outcomes[i].aborted =>
      /\ i = Len(outcomes)
      /\ pc = "done"
      /\ Len(delays) = i - 1
      /\ result.state = "thrown"
      /\ result.error = TimeoutError

\* C3: an attempt that fails with HTTP 400, 401 or 403 is the last attempt of
\* the call, on whichever attempt it occurs: complete() has ended with an
\* error (the authentication error for 401/403, the HTTP error itself for
\* 400), no backoff was waited after it and no further fetch was made.
C3_ClientErrorsEndCall ==
  \A i \in 1..Len(outcomes) :
    outcomes[i].status \in {400, 401, 403} =>
      /\ i = Len(outcomes)
      /\ pc = "done"
      /\ attempts = i
      /\ Len(delays) = i - 1
      /\ result.state = "thrown"
      /\ (outcomes[i].status \in {401, 403} => result.error = AuthError)
      /\ (outcomes[i].status = 400 => result.error = HttpError(400))

C3_Witness ==
  /\ Len(outcomes) >= 2
  /\ FirstFailedRetryable(Len(outcomes) - 1)
  /\ Last(outcomes).status = 403
  /\ pc = "done"
  /\ result.error = AuthError

\* C4: a 429/5xx failure of attempt number k (from 0) with retries left is
\* followed by a backoff wait of 2^k seconds before the retry; only such
\* failures are retried, and one call performs at most maxRetries retries
\* (maxRetries being the client's field the retry branch reads).
C4_ExponentialBackoff ==
  /\ Len(delays) <= client.maxRetries
  /\ attempts <= Len(delays) + 1
  /\ \A k \in 1..Len(delays) :
       /\ delays[k] = Pow2(k - 1) * 1000
       /\ outcomes[k].kind = "http"
       /\ RetryableStatus(outcomes[k].status)
  /\ \A i \in 1..Len(outcomes) :
       (outcomes[i].kind = "http" /\ RetryableStatus(outcomes[i].status)
          /\ i <= client.maxRetries)
         => Len(delays) >= i

C4_Witness ==
  /\ delays = <<1000, 2000, 4000>>
  /\ pc = "fetch"
  /\ attempts = 4

\* C5: when the first n attempts fail with 429 or 5xx, n <= maxRetries, the
\* call has not ended, and when the next attempt succeeds complete() returns
\* the translation of that attempt's body, having made n+1 <= maxRetries+1
\* attempts separated by backoff waits of 1, 2, 4, ... seconds.
C5_SuccessAfterRetries ==
  \A n \in 0..Len(outcomes) :
    (FirstFailedRetryable(n) /\ n <= client.maxRetries) =>
      /\ (Len(outcomes) = n => pc # "done")
      /\ (Len(outcomes) = n + 1 /\ outcomes[n + 1].kind = "ok") =>
           /\ pc = "done"
           /\ result.state = "returned"
           /\ result.value = Translate(client.provider, data).value
           /\ attempts = n + 1
           /\ attempts <= client.maxRetries + 1
           /\ delays = [k \in 1..n |-> Pow2(k - 1) * 1000]

C5_Witness ==
  /\ client.maxRetries >= 2
  /\ Len(outcomes) = client.maxRetries
  /\ FirstFailedRetryable(client.maxRetries - 1)
  /\ Last(outcomes).kind = "ok"
  /\ result.state = "returned"

\* the canonical response shape: text content, and tool_calls either null or
\* a list of {id, function: {name, arguments}} with arguments a JSON string
IsCanonical(r) ==
  /\ r.content.t = "string"
  /\ \/ r.tool_calls.t = "null"
     \/ /\ r.tool_calls.t = "array"
        /\ \A i \in 1..Len(r.tool_calls.v) :
             LET tc == r.tool_calls.v[i]
             IN /\ tc.id.t = "string"
                /\ tc.function.name.t = "string"
                /\ tc.function.arguments.t = "string"
                /\ JSONparse(tc.function.arguments.v).ok

\* ids of the tool invocations of a wire body, in wire order
WireToolIds(p, d) ==
  CASE p = "openai" ->
         IF IsNullish(d.choices.v[1].message.tool_calls) THEN <<>>
         ELSE [i \in 1..Len(d.choices.v[1].message.tool_calls.v) |->
                 d.choices.v[1].message.tool_calls.v[i].id]
    [] p = "anthropic" ->
         IF IsNullish(d.content) THEN <<>>
         ELSE LET uses == SelectSeq(d.content.v, LAMBDA c : c.type = "tool_use")
              IN [i \in 1..Len(uses) |-> uses[i].id]
    [] OTHER -> <<>>

\* C6: whichever the provider variant, a successful complete() returns text
\* content (empty when the backend supplied none) and tool_calls that is null
\* or the wire's tool invocations in wire order, each {id, function.name,
\* function.arguments as a JSON string}; the local variant returns null.
C6_CanonicalShape ==
  (pc = "done" /\ result.state = "returned") =>
    /\ IsCanonical(result.value)
    /\ client.provider = "local" => result.value.tool_calls = Null
    /\ result.value.tool_calls.t = "array" =>
         [i \in 1..Len(result.value.tool_calls.v) |-> result.value.tool_calls.v[i].id]
           = WireToolIds(client.provider, data)

C6_Witness ==
  /\ pc = "done"
  /\ result.state = "returned"
  /\ client.provider = "anthropic"
  /\ result.value.tool_calls.t = "array"
  /\ Len(result.value.tool_calls.v) = 2
  /\ result.value.content = Str("")

(***************************************************************************)
(* Properties of the message routing, checked under SpecAdmin              *)
(***************************************************************************)
AdminActions == {"get_config", "set_config", "clear_history", "get_history"}

\* C7: a chat message that arrives while the stored configuration has no API
\* key and a provider other than local is answered 'AI not configured...' and
\* causes no provider network call, after start-up and after any sequence of
\* set_config and chat messages.
C7_NoKeyNoChat ==
  \A k \in 1..MaxTurns :
    (turns[k].pc # "none" /\ turns[k].lacksKey) =>
      /\ turns[k].pc = "done"
      /\ turns[k].refused
      /\ turns[k].fetches = 0

\* C8: while this.ai is null, get_config, set_config, clear_history and
\* get_history are answered with their normal result, never with the
\* 'AI not configured' error.
C8_AdminAlwaysServiced ==
  (lastReply # Undef /\ lastReply.action \in AdminActions /\ lastReply.aiWasNull)
    => lastReply.reply # NotConfigured

(***************************************************************************)
(* Properties of executeToolCalls, checked under SpecTurns                 *)
(***************************************************************************)
\* call c of the log was settled (answered, rejected, or failed before any
\* message was sent) before position j
SettledBefore(log, c, j) ==
  \E h \in 1..(j - 1) : log[h].call = c /\ log[h].ev \in {"recv", "local"}

\* C9: within a chat turn the execute_tool messages go out one at a time in
\* array order: the message for a call is sent only after every earlier call
\* of the list has been settled, so at most one message is in flight.
C9_SequentialDispatch ==
  \A k \in 1..MaxTurns :
    LET log == turns[k].log
    IN /\ Cardinality(turns[k].outstanding) <= 1
       /\ \A j \in 1..Len(log) :
            log[j].ev = "send" =>
              /\ \A c \in 1..(log[j].call - 1) : SettledBefore(log, c, j)
              /\ \A h \in 1..(j - 1) : log[h].ev = "send" => log[h].call < log[j].call

C9_Witness ==
  \E k \in 1..MaxTurns :
    /\ turns[k].pc = "tools"
    /\ Len(turns[k].log) = 3
    /\ turns[k].log[1] = [ev |-> "send", call |-> 1, fate |-> ""]
    /\ turns[k].log[2] = [ev |-> "recv", call |-> 1, fate |-> "unreachable"]
    /\ turns[k].log[3] = [ev |-> "send", call |-> 2, fate |-> ""]

\* the sendMessage of call i was rejected (no executor reachable)
Unreachable(t, i) ==
  \E j \in 1..Len(t.log) : t.log[j].call = i /\ t.log[j].fate = "unreachable"

WasSent(t, i) ==
  \E j \in 1..Len(t.log) : t.log[j].call = i /\ t.log[j].ev = "send"

Unparsable(call) == ~JSONparse(call.function.arguments.v).ok

\* C10: when executeToolCalls returns, the result list is as long as the call
\* list and its i-th entry is the outcome of the i-th call; a call that failed
\* (executor unreachable, unparsable arguments JSON) has an entry with
\* success=false, and every call whose arguments parse was dispatched,
\* whatever happened to the calls before it.
C10_ResultsMatchCalls ==
  \A k \in 1..MaxTurns :
    turns[k].pc = "model2" =>
      LET t == turns[k]
      IN /\ Len(t.results) = Len(t.calls)
         /\ \A i \in 1..Len(t.calls) :
              /\ t.results[i].re = t.calls[i].id
              /\ (Unreachable(t, i) \/ Unparsable(t.calls[i])) => ~t.results[i].success
              /\ ~Unparsable(t.calls[i]) => WasSent(t, i)

\* what holds of executeToolCalls in both copies: same length, same order,
\* a rejected sendMessage recorded as success=false, later calls dispatched
ExecuteToolCallsTotal ==
  \A k \in 1..MaxTurns :
    turns[k].pc = "model2" =>
      LET t == turns[k]
      IN /\ Len(t.results) = Len(t.calls)
         /\ \A i \in 1..Len(t.calls) :
              /\ t.results[i].re = t.calls[i].id
              /\ Unreachable(t, i) => ~t.results[i].success
              /\ (build = "background" /\ Unparsable(t.calls[i])) => ~t.results[i].success
              /\ (build = "part_001" \/ ~Unparsable(t.calls[i])) => WasSent(t, i)

(***************************************************************************)
(* Properties of the session history                                       *)
(***************************************************************************)
\* the step just taken delivered the response of a chat turn that used tools
ToolTurnAnswered ==
  /\ "action" \in DOMAIN lastReply
  /\ lastReply.action = "chat"
  /\ lastReply.reply.kind = "chat"
  /\ Len(lastReply.reply.usedTools) > 0

\* C11: once a chat turn whose first provider response carried tool calls has
\* completed, the session history ends with the user message, one assistant
\* message carrying the tool calls, one tool-role message per tool result and
\* the final assistant message, in that order.
C11_ToolTurnHistory ==
  ToolTurnAnswered =>
    LET h == objs[sessions[lastReply.tab]].history
        n == Len(lastReply.reply.actions)
        L == Len(h)
    IN /\ L >= n + 3
       /\ h[L - n - 2].role = "user"
       /\ h[L - n - 1].role = "assistant"
       /\ "tool_calls" \in DOMAIN h[L - n - 1]
       /\ \A i \in 1..n : h[L - n - 1 + i].role = "tool"
       /\ h[L].role = "assistant"

(***************************************************************************)
(* AIBrowserAssistant: navigation events and long-lived sessions           *)
(***************************************************************************)
\* completed chat turns a session has behind it when observation starts
MaxEarlier == 10
\* navigation events recorded in one history
MaxNavs == 2

Urls == {"https://a.example/"}

SystemMessage(url) ==
  [role |-> "system", content |-> Str("User navigated to: " \o url), turn |-> 0]

\* number of system messages in a history
RECURSIVE CountSystem(_)
CountSystem(h) ==
  IF h = <<>> THEN 0
  ELSE (IF h[1].role = "system" THEN 1 ELSE 0) + CountSystem(Tail(h))

\* webNavigation.onCompleted of the main frame of a tab: handleNavigation
\* records the page context of an existing session; background.js also pushes
\* a system message on the history, without trimming it
handleNavigation(tab, url) ==
  /\ initialized
  /\ IF sessions[tab] = 0
     THEN UNCHANGED objs
     ELSE /\ CountSystem(objs[sessions[tab]].history) < MaxNavs
          /\ objs' = [objs EXCEPT
               ![sessions[tab]].pageContext = [url |-> Str(url), timestamp |-> now],
               ![sessions[tab]].history =
                  IF build = "background" THEN Append(@, SystemMessage(url)) ELSE @]
  /\ lastReply' = Undef
  /\ UNCHANGED <<build, store, cache, ai, initialized, sessions, turns, now, clientVars, pageVars>>

\* the history of a session after n chat turns that used no tool and were
\* sent one after the other
RECURSIVE EarlierTurns(_, _)
EarlierTurns(b, n) ==
  IF n = 0 THEN <<>>
  ELSE trimHistory(b, Append(Append(EarlierTurns(b, n - 1),
                                    [role |-> "user", content |-> Str("hello"), turn |-> 0]),
                             [role |-> "assistant", content |-> Str("answer"), turn |-> 0]))

\* a configured service worker whose tab 1 has a session with up to MaxEarlier
\* completed turns behind it
InitHistory ==
  /\ build \in Builds
  /\ store = [provider |-> Str("openai"), apiKey |-> Str("sk-1")]
  /\ cache = [has |-> TRUE, value |-> store]
  /\ ai = AIClient([provider |-> JsOr(Get(store, "provider"), Str("openai")),
                    apiKey |-> Get(store, "apiKey")])
  /\ initialized = TRUE
  /\ \E n \in 0..MaxEarlier :
       /\ sessions = [t \in Tabs |-> IF t = 1 /\ n > 0 THEN 1 ELSE 0]
       /\ objs = [k \in 1..MaxTurns |->
                    IF k = 1 THEN [NoSession EXCEPT !.history = EarlierTurns(build, n)]
                    ELSE NoSession]
  /\ turns = [k \in 1..MaxTurns |-> NoTurn]
  /\ lastReply = Undef
  /\ now = 0
  /\ ClientIdle
  /\ PageIdle

\* further chat turns on that tab, with or without tools, failing or not,
\* and navigation events in between
NextHistory ==
  \/ \E k \in 1..MaxTurns : SerialChat(k, 1)
  \/ \E k \in 1..MaxTurns, r \in ModelResponses("openai") : ModelResponds(k, r)
  \/ \E k \in 1..MaxTurns : ModelFails(k)
  \/ \E k \in 1..MaxTurns, i \in 1..MaxCalls, o \in SettleOutcomes : ToolSettles(k, i, o)
  \/ \E url \in Urls : handleNavigation(1, url)

SpecHistory == InitHistory /\ [][NextHistory]_vars

\* C12: whatever the chat turns made on a tab (with tool calls, without, or
\* with a failing provider call) and the navigation events in between, once
\* no turn is in flight the session's history holds at most
\* MAX_HISTORY_PER_TAB messages.
C12_HistoryBounded ==
  NoTurnInFlight =>
    \A tab \in Tabs :
      sessions[tab] # 0 => Len(objs[sessions[tab]].history) <= MAX_HISTORY_PER_TAB

(***************************************************************************)
(* AIBrowserAssistant: chat messages that arrive while a turn is in flight *)
(***************************************************************************)
\* the listener of setupListeners starts handleMessage for every message it
\* receives, whether or not an earlier chat turn has been answered
NextOverlap ==
  \/ \E k \in 1..MaxTurns, tab \in Tabs : Chat(k, tab)
  \/ \E k \in 1..MaxTurns, r \in ModelResponses("openai") : ModelResponds(k, r)
  \/ \E k \in 1..MaxTurns : ModelFails(k)
  \/ \E k \in 1..MaxTurns, i \in 1..MaxCalls, o \in SettleOutcomes : ToolSettles(k, i, o)

SpecOverlap == InitTurns /\ [][NextOverlap]_vars

InFlight(k) == turns[k].pc \in {"model1", "tools", "model2"}

\* the unfinished turns whose user message is in history h
UnfinishedIn(h) ==
  { k \in 1..MaxTurns :
      InFlight(k) /\ \E i \in 1..Len(h) : h[i].role = "user" /\ h[i].turn = k }

\* C13: a chat message for a tab that arrives while a turn of that tab awaits
\* the provider or the executor appends nothing to the session history until
\* that turn has finished: no history ever holds the user messages of two
\* unfinished turns.
C13_TurnsSerializedPerTab ==
  \A s \in 1..MaxTurns : Cardinality(UnfinishedIn(objs[s].history)) <= 1

(***************************************************************************)
(* AIBrowserAssistant: tab lifecycle                                       *)
(***************************************************************************)
\* a tab-close event that drops the sessions of every tab
cleanupTab_All(tab) ==
  /\ initialized
  /\ sessions' = [t \in Tabs |-> 0]
  /\ lastReply' = [event |-> "tab_removed", tab |-> tab]
  /\ UNCHANGED <<build, store, cache, ai, initialized, objs, turns, now, clientVars, pageVars>>

\* chrome.tabs.onRemoved for a tab: cleanupTab deletes the tab's session
cleanupTab(tab) ==
  /\ initialized
  /\ sessions' = [sessions EXCEPT ![tab] = 0]
  /\ lastReply' = [event |-> "tab_removed", tab |-> tab]
  /\ UNCHANGED <<build, store, cache, ai, initialized, objs, turns, now, clientVars, pageVars>>

\* start-up over any stored configuration, chat turns (overlapping or not),
\* tab-close events and history requests
NextLifecycle ==
  \/ \E readOk \in BOOLEAN : init(readOk)
  \/ \E tab \in Tabs : cleanupTab(tab)
  \/ \E tab \in Tabs : GetHistory(tab)
  \/ \E k \in 1..MaxTurns, tab \in Tabs : Chat(k, tab)
  \/ \E k \in 1..MaxTurns, r \in PlainResponses : ModelResponds(k, r)
  \/ \E k \in 1..MaxTurns : ModelFails(k)

SpecLifecycle == InitOrch /\ [][NextLifecycle]_vars

\* the step just taken was the tab-close event of tab
JustRemoved(tab) ==
  /\ "event" \in DOMAIN lastReply
  /\ lastReply.event = "tab_removed"
  /\ lastReply.tab = tab

\* C14: a tab-close event for tab X removes session X at once, whatever its
\* lastActivity and whether or not a turn of X is in flight, and a get_history
\* for X that follows it is answered with an empty history.
C14_TabCloseRemovesSession ==
  [][\A X \in Tabs :
       /\ cleanupTab(X) => sessions'[X] = 0
       /\ (JustRemoved(X) /\ GetHistory(X)) =>
            lastReply'.reply = [kind |-> "history", history |-> <<>>]]_vars

(***************************************************************************)
(* AIBrowserAssistant: the listener's response, operations on the executor *)
(***************************************************************************)
PageStructure == [kind |-> "structure", url |-> "https://a.example/", error |-> Undef]

\* getPageStructure(tabId): the get_structure message; when it is rejected,
\* one executeScript of content.js and one more get_structure. part_001
\* returns a placeholder carrying the error when the injection or the retry
\* fails, background.js lets the error reject.
\* steps: the chrome calls made, in order
getPageStructure(b, first, inject, retry) ==
  IF first THEN [steps |-> <<"send">>, settled |-> Resolved(PageStructure)]
  ELSE LET steps == IF inject THEN <<"send", "inject", "send">> ELSE <<"send", "inject">>
           msg == IF inject THEN "Could not establish connection"
                  ELSE "Cannot access contents of the page"
       IN IF inject /\ retry THEN [steps |-> steps, settled |-> Resolved(PageStructure)]
          ELSE IF b = "part_001"
          THEN [steps |-> steps,
                settled |-> Resolved([kind |-> "structure", url |-> "unknown",
                                      error |-> Str(msg)])]
          ELSE [steps |-> steps, settled |-> Rejected(msg)]

\* message get_page_structure{tabId}
GetPageStructure(tab, first, inject, retry) ==
  /\ initialized
  /\ LET run == IF Refused(build, ai, "get_page_structure")
                THEN [steps |-> <<>>, settled |-> Resolved(NotConfigured)]
                ELSE getPageStructure(build, first, inject, retry)
     IN lastReply' = [action |-> "get_page_structure", tab |-> tab, turn |-> 0,
                      aiWasNull |-> (ai = Null), reply |-> Respond(run.settled),
                      steps |-> run.steps]
  /\ UNCHANGED <<build, store, cache, ai, initialized, sessions, objs, turns, now, clientVars, pageVars>>

\* chat turns with tools and page-structure requests, over executors that
\* may be unreachable
NextExecutor ==
  \/ \E k \in 1..MaxTurns, tab \in Tabs : SerialChat(k, tab)
  \/ \E k \in 1..MaxTurns, r \in ModelResponses("openai") : ModelResponds(k, r)
  \/ \E k \in 1..MaxTurns : ModelFails(k)
  \/ \E k \in 1..MaxTurns, i \in 1..MaxCalls, o \in SettleOutcomes : ToolSettles(k, i, o)
  \/ \E tab \in Tabs, first, inject, retry \in BOOLEAN :
       GetPageStructure(tab, first, inject, retry)

SpecExecutor == InitTurns /\ [][NextExecutor]_vars

\* the step just taken answered a get_page_structure whose first message
\* found no executor
StructureAfterUnreachable ==
  /\ "action" \in DOMAIN lastReply
  /\ lastReply.action = "get_page_structure"
  /\ Len(lastReply.steps) > 1

\* C15: an operation that finds the executor of the tab unreachable injects
\* the script once and retries its message once, and ends with an error when
\* that fails too. For get_page_structure: one injection, then (when the
\* injection went through) one more get_structure, never a third message. For
\* the execute_tool messages of a chat turn: a rejected message is followed
\* by an injection and a retry of the same call.
C15_OneInjectionAndRetry ==
  /\ StructureAfterUnreachable =>
       /\ lastReply.steps \in {<<"send", "inject", "send">>, <<"send", "inject">>}
       /\ lastReply.reply.kind \in {"structure", "error"}
  /\ \A k \in 1..MaxTurns :
       LET log == turns[k].log
       IN \A j \in 1..Len(log) :
            (log[j].ev = "recv" /\ log[j].fate = "unreachable") =>
              \E h \in (j + 1)..Len(log) :
                /\ log[h].ev = "inject"
                /\ h < Len(log) /\ log[h + 1].ev = "send" /\ log[h + 1].call = log[j].call

(***************************************************************************)
(* AIBrowserAssistant: every message of the listener                       *)
(***************************************************************************)
\* a message whose action no case of handleMessage knows
UnknownAction(tab) ==
  /\ initialized
  /\ lastReply' =
       Reply("bogus", tab, 0, ai,
             Respond(IF Refused(build, ai, "bogus") THEN Resolved(NotConfigured)
                     ELSE Rejected("Unknown action: bogus")))
  /\ UNCHANGED <<build, store, cache, ai, initialized, sessions, objs, turns, now, clientVars, pageVars>>

\* message execute_action{actionData}: the promise of chrome.tabs.sendMessage
\* is returned as it is, so it rejects when the tab has no executor
ExecuteAction(tab, reachable) ==
  /\ initialized
  /\ lastReply' =
       Reply("execute_action", tab, 0, ai,
             Respond(IF Refused(build, ai, "execute_action") THEN Resolved(NotConfigured)
                     ELSE IF reachable THEN Resolved([kind |-> "action_result"])
                     ELSE Rejected("Could not establish connection")))
  /\ UNCHANGED <<build, store, cache, ai, initialized, sessions, objs, turns, now, clientVars, pageVars>>

\* configurations sent with set_config by a side panel that validated the key
KeyedConfigs == {c \in AIConfigs : Truthy(c.apiKey)}

\* the tab the messages of this specification are about
MessageTabs == {1}

\* every kind of message the listener receives, around serial chat turns
NextMessages ==
  \/ \E readOk \in BOOLEAN : init(readOk)
  \/ \E readOk \in BOOLEAN : GetConfig(readOk)
  \/ \E config \in KeyedConfigs, writeOk \in BOOLEAN : SetConfig(config, writeOk)
  \/ \E tab \in MessageTabs : ClearHistory(tab)
  \/ \E tab \in MessageTabs : GetHistory(tab)
  \/ \E tab \in MessageTabs : UnknownAction(tab)
  \/ \E tab \in MessageTabs, reachable \in BOOLEAN : ExecuteAction(tab, reachable)
  \/ \E tab \in MessageTabs, first, inject, retry \in BOOLEAN :
       GetPageStructure(tab, first, inject, retry)
  \/ \E k \in 1..MaxTurns, tab \in MessageTabs : SerialChat(k, tab)
  \/ \E k \in 1..MaxTurns, r \in PlainResponses : ModelResponds(k, r)
  \/ \E k \in 1..MaxTurns : ModelFails(k)

\* the service worker as constructed, over a store that is empty or holds a
\* configuration with a key
InitMessages ==
  /\ InitOrch
  /\ store \in {Undef, [provider |-> Str("openai"), apiKey |-> Str("sk-1")]}

SpecMessages == InitMessages /\ [][NextMessages]_vars

\* the step is the receipt of a message that handleMessage answers without
\* calling the provider
AnsweredAtOnce ==
  \/ \E readOk \in BOOLEAN : GetConfig(readOk)
  \/ \E config \in KeyedConfigs, writeOk \in BOOLEAN : SetConfig(config, writeOk)
  \/ \E tab \in MessageTabs : ClearHistory(tab) \/ GetHistory(tab) \/ UnknownAction(tab)
  \/ \E tab \in MessageTabs, reachable \in BOOLEAN : ExecuteAction(tab, reachable)
  \/ \E tab \in MessageTabs, first, inject, retry \in BOOLEAN :
       GetPageStructure(tab, first, inject, retry)
  \/ \E k \in 1..MaxTurns, tab \in MessageTabs :
       SerialChat(k, tab) /\ Refused(build, ai, "chat")

\* r is a response value: a result or an {error: message}
IsResponse(r) ==
  /\ "reply" \in DOMAIN r
  /\ "kind" \in DOMAIN r.reply
  /\ r.reply.kind = "error" => r.reply.message # ""

\* r is the response to the chat message of turn k
AnswersTurn(r, k) == "turn" \in DOMAIN r /\ r.turn = k

\* C16: every message delivered to the listener is answered exactly once, by
\* the action's result or by an {error: message} value. A message answered
\* without the provider is answered in the step that receives it; a chat turn
\* is answered in the step that ends it and never again; a provider failure,
\* an unreachable executor and an unknown action are answered with an error
\* value, and all this holds for every later message too.
C16_EveryMessageAnswered ==
  [][/\ AnsweredAtOnce => IsResponse(lastReply')
     /\ \A k \in 1..MaxTurns :
          /\ (InFlight(k) /\ ~(turns'[k].pc \in {"model1", "tools", "model2"})) =>
               /\ turns'[k].pc = "done"
               /\ IsResponse(lastReply') /\ AnswersTurn(lastReply', k)
          /\ turns[k].pc = "done" =>
               turns'[k].pc = "done" /\ ~AnswersTurn(lastReply', k)
     /\ (\E k \in 1..MaxTurns : ModelFails(k)) => lastReply'.reply.kind = "error"
     /\ (\E tab \in MessageTabs : UnknownAction(tab)) => lastReply'.reply.kind = "error"
     /\ (\E tab \in MessageTabs : ExecuteAction(tab, FALSE)) =>
          lastReply'.reply.kind = "error"
     /\ (\E tab \in MessageTabs, inject, retry \in BOOLEAN :
           GetPageStructure(tab, FALSE, inject, retry) /\ ~(inject /\ retry)) =>
          \/ lastReply'.reply.kind = "error"
          \/ lastReply'.reply.error # Undef]_vars

\* a chat turn is answered with the provider's reply after an earlier turn of
\* the same tab was answered with an error: the history holds the user
\* message of the failed turn, that of the second turn and its answer
C16_Witness ==
  /\ "action" \in DOMAIN lastReply
  /\ lastReply.action = "chat"
  /\ lastReply.turn = 2
  /\ lastReply.reply.kind = "chat"
  /\ sessions[lastReply.tab] # 0
  /\ LET h == objs[sessions[lastReply.tab]].history
     IN /\ Len(h) = 3
        /\ h[1].role = "user" /\ h[1].turn = 1
        /\ h[2].role = "user" /\ h[2].turn = 2
        /\ h[3].role = "assistant"

(***************************************************************************)
(* PageController (content.js): strings and the document                   *)
(***************************************************************************)
\* longest body of a page, in elements
MaxElems == 2

\* String.prototype.includes
Includes(h, n) ==
  \E i \in 0..(Len(h) - Len(n)) : SubSeq(h, i + 1, i + Len(n)) = n

UpperCase == "ABCDEFGHIJKLMNOPQRSTUVWXYZ"
LowerCase == "abcdefghijklmnopqrstuvwxyz"

\* the lower-case letter of each upper-case letter
LowerOf ==
  [c \in {SubSeq(UpperCase, i, i) : i \in 1..26} |->
     SubSeq(LowerCase, CHOOSE i \in 1..26 : SubSeq(UpperCase, i, i) = c,
                       CHOOSE i \in 1..26 : SubSeq(UpperCase, i, i) = c)]

LowerChar(c) == IF c \in DOMAIN LowerOf THEN LowerOf[c] ELSE c

\* String.prototype.toLowerCase
RECURSIVE toLowerCase(_)
toLowerCase(s) ==
  IF Len(s) = 0 THEN ""
  ELSE LowerChar(SubSeq(s, 1, 1)) \o toLowerCase(SubSeq(s, 2, Len(s)))

RECURSIVE SkipSpaces(_)
SkipSpaces(s) ==
  IF Len(s) > 0 /\ SubSeq(s, 1, 1) = " " THEN SkipSpaces(SubSeq(s, 2, Len(s))) ELSE s

\* String.prototype.split(/\s+/), cur being the piece read so far
RECURSIVE SplitFrom(_, _)
SplitFrom(s, cur) ==
  IF Len(s) = 0 THEN <<cur>>
  ELSE IF SubSeq(s, 1, 1) = " "
       THEN <<cur>> \o SplitFrom(SkipSpaces(s), "")
       ELSE SplitFrom(SubSeq(s, 2, Len(s)), cur \o SubSeq(s, 1, 1))

\* a child node of an element: a text node, or a highlight mark wrapping text
\* (by: the find_text call that inserted the mark, depth: the number of marks
\* around the text)
TextNode(s) == [mark |-> FALSE, s |-> s, by |-> 0, depth |-> 0]

\* an element of the body. An attribute that is absent is the empty string.
Element(tag, id, text) ==
  [tag |-> tag, id |-> id,
   nodes |-> IF text = "" THEN <<>> ELSE <<TextNode(text)>>,
   aria |-> "", htmlFor |-> "", name |-> "", placeholder |-> "", value |-> "",
   href |-> "", options |-> <<>>,
   rect |-> [width |-> 80, height |-> 20],
   style |-> [visibility |-> "visible", display |-> "block", opacity |-> "1"]]

DisplayNone(el) ==
  [el EXCEPT !.style.display = "none", !.rect = [width |-> 0, height |-> 0]]

Transparent(el) == [el EXCEPT !.style.opacity = "0"]

\* sequences without repetition of at most n members of pool
Arrangements(pool, n) ==
  { s \in SeqsUpTo(pool, n) : \A i, j \in 1..Len(s) : i # j => s[i] # s[j] }

\* Node.textContent / HTMLElement.innerText of an element
RECURSIVE Concat(_)
Concat(nodes) == IF nodes = <<>> THEN "" ELSE Head(nodes).s \o Concat(Tail(nodes))

textContent(el) == Concat(el.nodes)

\* the first element of d that satisfies P, 0 (null) when none does
First(d, P(_)) ==
  IF \E i \in 1..Len(d) : P(d[i])
  THEN CHOOSE i \in 1..Len(d) : P(d[i]) /\ \A j \in 1..(i - 1) : ~P(d[j])
  ELSE 0

\* Element.matches for the selectors used: #id, or a tag name
Matches(el, selector) ==
  IF SubSeq(selector, 1, 1) = "#" THEN el.id = SubSeq(selector, 2, Len(selector))
  ELSE el.tag = selector

\* document.querySelector
querySelector(d, selector) == LET P(el) == Matches(el, selector) IN First(d, P)

\* document.querySelectorAll: the indices of the matching elements, in order
RECURSIVE SelectAll(_, _, _)
SelectAll(d, selector, i) ==
  IF i > Len(d) THEN <<>>
  ELSE (IF Matches(d[i], selector) THEN <<i>> ELSE <<>>) \o SelectAll(d, selector, i + 1)

querySelectorAll(d, selector) == SelectAll(d, selector, 1)

\* isVisible(el), el = 0 being null
isVisible(d, el) ==
  /\ el # 0
  /\ d[el].rect.width > 0
  /\ d[el].rect.height > 0
  /\ d[el].style.visibility # "hidden"
  /\ d[el].style.display # "none"
  /\ d[el].style.opacity # "0"

\* what the listener of the content script answers when the handler throws
ToolThrew(msg) == [success |-> FALSE, error |-> msg, threw |-> TRUE]

(***************************************************************************)
(* PageController: click_element and fill_form                             *)
(***************************************************************************)
\* the first text node child of an element, "" when it has none: what
\* contains(text(), ...) of XPath converts the node set text() to
FirstText(el) ==
  LET texts == {i \in 1..Len(el.nodes) : ~el.nodes[i].mark}
  IN IF texts = {} THEN ""
     ELSE el.nodes[CHOOSE i \in texts : \A j \in texts : i <= j].s

\* findElementByText(text). The quote of the text is escaped with a backslash,
\* which XPath 1.0 literals do not know: a text with an apostrophe makes
\* document.evaluate throw a SyntaxError.
findElementByText(d, text) ==
  IF Includes(text, "'") THEN [threw |-> TRUE, el |-> 0]
  ELSE LET P(el) == Includes(FirstText(el), text)
       IN [threw |-> FALSE, el |-> First(d, P)]

\* findElementByAria(label): [aria-label*="label" i]
findElementByAria(d, label) ==
  LET P(el) == label # "" /\ Includes(toLowerCase(el.aria), toLowerCase(label))
  IN First(d, P)

\* fuzzyFindElement(description)
fuzzyFindElement(d, description) ==
  LET keywords == SplitFrom(toLowerCase(description), "")
      P(el) ==
        /\ el.tag \in {"button", "a", "input"}
        /\ LET inner == textContent(el)
               text == toLowerCase(IF inner # "" THEN inner
                                   ELSE IF el.value # "" THEN el.value
                                   ELSE el.aria)
           IN \E k \in 1..Len(keywords) : Includes(text, keywords[k])
  IN First(d, P)

NotYet_Always(element) == TRUE

\* if (!element): the next stage is tried only while nothing is resolved
NotYet(element) == element = 0

\* method = element ? stage : method
ClickMethod(before, stage, element) == IF element # 0 THEN stage ELSE before

\* element.click exists: an SVG element has no click method, and calling it
\* throws a TypeError
HasClick(el) == el.tag # "svg"

\* a click that does not wait for the settle delay
ClickSteps_NoDelay(d, e) ==
  <<[op |-> "scrollIntoView", el |-> e], [op |-> "flash", el |-> e]>>
    \o (IF HasClick(d[e]) THEN <<[op |-> "click", el |-> e]>> ELSE <<>>)
    \o <<[op |-> "wait", el |-> 500], [op |-> "resolve", el |-> e]>>

\* what findAndClick does with a visible element: scrollIntoView, flashElement,
\* and in the callback of setTimeout(500) the click and the resolve of the
\* promise it returned
ClickSteps(d, e) ==
  <<[op |-> "scrollIntoView", el |-> e], [op |-> "flash", el |-> e],
    [op |-> "wait", el |-> 500]>>
    \o (IF HasClick(d[e]) THEN <<[op |-> "click", el |-> e]>> ELSE <<>>)
    \o <<[op |-> "resolve", el |-> e]>>

\* what fillFormField does with its input: focus, scrollIntoView,
\* flashElement, and in the callback of setTimeout(300) the write, the events
\* (unless the option is not found) and the resolve of the promise
FillSteps(e, written) ==
  <<[op |-> "focus", el |-> e], [op |-> "scrollIntoView", el |-> e],
    [op |-> "flash", el |-> e], [op |-> "wait", el |-> 300]>>
    \o (IF written THEN <<[op |-> "value", el |-> e], [op |-> "input", el |-> e],
                           [op |-> "change", el |-> e], [op |-> "keyup", el |-> e]>>
        ELSE <<>>)
    \o <<[op |-> "resolve", el |-> e]>>

\* findAndClick(description, selector): the element, the method, the stages
\* tried, the result and what was done to the page
findAndClick(d, description, selector) ==
  LET e1 == IF selector # "" THEN querySelector(d, selector) ELSE 0
      m1 == IF selector # "" THEN "selector" ELSE "unknown"
      t1 == IF selector # "" THEN <<"selector">> ELSE <<>>
      byText == findElementByText(d, description)
  IN IF NotYet(e1) /\ byText.threw
     THEN [result |-> ToolThrew("SyntaxError"), element |-> 0,
           tried |-> Append(t1, "text"), effects |-> <<>>]
     ELSE
     LET e2 == IF NotYet(e1) THEN byText.el ELSE e1
         m2 == IF NotYet(e1) THEN ClickMethod(m1, "text", e2) ELSE m1
         t2 == IF NotYet(e1) THEN Append(t1, "text") ELSE t1
         e3 == IF NotYet(e2) THEN findElementByAria(d, description) ELSE e2
         m3 == IF NotYet(e2) THEN ClickMethod(m2, "aria", e3) ELSE m2
         t3 == IF NotYet(e2) THEN Append(t2, "aria") ELSE t2
         e4 == IF NotYet(e3) THEN fuzzyFindElement(d, description) ELSE e3
         m4 == IF NotYet(e3) THEN ClickMethod(m3, "fuzzy", e4) ELSE m3
         t4 == IF NotYet(e3) THEN Append(t3, "fuzzy") ELSE t3
     IN IF e4 = 0
        THEN [result |-> [success |-> FALSE, error |-> "Could not find element matching",
                          threw |-> FALSE],
              element |-> 0, tried |-> t4, effects |-> <<>>]
        ELSE IF ~isVisible(d, e4)
        THEN [result |-> [success |-> FALSE, error |-> "Element found but not visible",
                          threw |-> FALSE],
              element |-> e4, tried |-> t4, effects |-> <<>>]
        ELSE IF ~HasClick(d[e4])
        THEN [result |-> [success |-> FALSE, error |-> "Click failed", threw |-> FALSE],
              element |-> e4, tried |-> t4, effects |-> ClickSteps(d, e4)]
        ELSE [result |-> [success |-> TRUE, method |-> m4, threw |-> FALSE],
              element |-> e4, tried |-> t4, effects |-> ClickSteps(d, e4)]

\* fillFormField(description, value, selector)
fillFormField(d, description, value, selector) ==
  LET e1 == IF selector # "" THEN querySelector(d, selector) ELSE 0
      m1 == IF selector # "" THEN "selector" ELSE "unknown"
      IsLabel(el) ==
        el.tag = "label" /\ Includes(toLowerCase(textContent(el)), toLowerCase(description))
      label == IF e1 = 0 THEN First(d, IsLabel) ELSE 0
      ById(el) == el.id = d[label].htmlFor
      e2 == IF e1 # 0 THEN e1
            ELSE IF label # 0 /\ d[label].htmlFor # "" THEN First(d, ById)
            ELSE 0
      m2 == IF label # 0 THEN "label" ELSE m1
      ByPlaceholder(el) ==
        description # "" /\ Includes(toLowerCase(el.placeholder), toLowerCase(description))
      e3 == IF e2 = 0 THEN First(d, ByPlaceholder) ELSE e2
      m3 == IF e2 = 0 /\ e3 # 0 THEN "placeholder" ELSE m2
      ByName(el) ==
        /\ el.tag \in {"input", "textarea", "select"}
        /\ \/ el.name # "" /\ Includes(toLowerCase(el.name), toLowerCase(description))
           \/ el.id # "" /\ Includes(toLowerCase(el.id), toLowerCase(description))
      e4 == IF e3 = 0 THEN First(d, ByName) ELSE e3
      m4 == IF e3 = 0 /\ e4 # 0 THEN "name/id" ELSE m3
  IN IF e4 = 0
     THEN [result |-> [success |-> FALSE, error |-> "Could not find form field",
                       threw |-> FALSE],
           element |-> 0, doc |-> d, effects |-> <<>>]
     ELSE IF d[e4].tag = "select" /\ ~\E o \in 1..Len(d[e4].options) :
                                        Includes(toLowerCase(d[e4].options[o]), toLowerCase(value))
     THEN [result |-> [success |-> FALSE, error |-> "Option not found in dropdown",
                       threw |-> FALSE],
           element |-> e4, doc |-> d,
           effects |-> FillSteps(e4, FALSE)]
     ELSE [result |-> [success |-> TRUE, method |-> m4, threw |-> FALSE],
           element |-> e4,
           doc |-> [d EXCEPT ![e4].value =
                      IF d[e4].tag = "select"
                      THEN LET hit(o) == Includes(toLowerCase(d[e4].options[o]),
                                                  toLowerCase(value))
                           IN d[e4].options[CHOOSE o \in 1..Len(d[e4].options) :
                                hit(o) /\ \A q \in 1..(o - 1) : ~hit(q)]
                      ELSE value],
           effects |-> FillSteps(e4, TRUE)]

\* the elements the pages are made of: clickable ones ...
ClickPool ==
  { [Element("button", "go", "Save") EXCEPT !.aria = "Confirm"],
    DisplayNone(Element("div", "hid", "Save")),
    [Element("a", "lnk", "") EXCEPT !.aria = "Save file"],
    Element("button", "up", "SAVE all"),
    [Element("svg", "ico", "") EXCEPT !.aria = "Save icon"],
    DisplayNone(Element("button", "old", "SAVE draft")) }

\* ... and form fields
FormPool ==
  { [Element("label", "l1", "Email address") EXCEPT !.htmlFor = "email"],
    [Element("input", "email", "") EXCEPT !.name = "email", !.placeholder = "Your email"],
    Transparent([Element("input", "secret", "") EXCEPT !.name = "secret"]),
    [Element("select", "plan", "") EXCEPT !.name = "plan", !.options = <<"Free", "Pro">>] }

ControlPages == Arrangements(ClickPool, MaxElems) \cup Arrangements(FormPool, MaxElems)

Descriptions == {"Save", "Don't save", "secret", "Email", "plan"}
Selectors == {"", "#secret", "#nope"}
Values == {"pro", "max"}

InitControls ==
  /\ doc \in ControlPages
  /\ effects = <<>>
  /\ toolResult = Undef
  /\ panel = Undef
  /\ ClientIdle
  /\ OrchIdle

\* execute_tool{tool: 'click_element', params: {description, selector}}
ClickElement(description, selector) ==
  /\ LET run == findAndClick(doc, description, selector)
     IN /\ toolResult' = [tool |-> "click_element", description |-> description,
                          selector |-> selector, result |-> run.result,
                          element |-> run.element, tried |-> run.tried]
        /\ effects' = run.effects
  /\ UNCHANGED <<doc, orchVars, clientVars, panel>>

\* execute_tool{tool: 'fill_form', params: {field_description, value, selector}}
FillForm(description, value, selector) ==
  /\ LET run == fillFormField(doc, description, value, selector)
     IN /\ toolResult' = [tool |-> "fill_form", description |-> description,
                          selector |-> selector, result |-> run.result,
                          element |-> run.element, tried |-> <<>>]
        /\ effects' = run.effects
        /\ doc' = run.doc
  /\ UNCHANGED <<orchVars, clientVars, panel>>

NextControls ==
  \/ \E description \in Descriptions, selector \in Selectors :
       ClickElement(description, selector)
  \/ \E description \in Descriptions, value \in Values, selector \in Selectors :
       FillForm(description, value, selector)

SpecControls == InitControls /\ [][NextControls]_vars

(***************************************************************************)
(* Properties of click_element and fill_form, checked under SpecControls   *)
(***************************************************************************)
\* the stages of the cascade of click_element, in order
CascadeStages(selector) ==
  IF selector # "" THEN <<"selector", "text", "aria", "fuzzy">>
  ELSE <<"text", "aria", "fuzzy">>

\* the element a stage yields on document d, 0 when none
StageYield(d, description, selector, stage) ==
  CASE stage = "selector" -> querySelector(d, selector)
    [] stage = "text" -> findElementByText(d, description).el
    [] stage = "aria" -> findElementByAria(d, description)
    [] stage = "fuzzy" -> fuzzyFindElement(d, description)

ClickAnswered ==
  /\ "tool" \in DOMAIN toolResult
  /\ toolResult.tool = "click_element"

ResolvedInvisible ==
  /\ "tool" \in DOMAIN toolResult
  /\ toolResult.tool \in {"click_element", "fill_form"}
  /\ toolResult.element # 0
  /\ ~isVisible(doc, toolResult.element)

\* C18: when click_element or fill_form resolves an element that is not
\* visible, the result has success=false with an error other than the
\* not-found one, and the element is neither clicked nor written to nor sent
\* an event.
C18_InvisibleNotActedOn ==
  ResolvedInvisible =>
    /\ ~toolResult.result.success
    /\ toolResult.result.error \notin {"Could not find element matching",
                                         "Could not find form field"}
    /\ \A i \in 1..Len(effects) :
         effects[i].op \notin {"click", "value", "input", "change", "keyup"}

(***************************************************************************)
(* PageController: find_text                                               *)
(***************************************************************************)
MaxFinds == 3

\* the highlight mark the replacement of findAndHighlight writes around a match
Mark(s, call, depth) == [mark |-> TRUE, s |-> s, by |-> call, depth |-> depth]

HasMark(el) == \E j \in 1..Len(el.nodes) : el.nodes[j].mark

\* clearHighlights leaves every element as it was
clearHighlights_Keep(d) == d

\* clearHighlights(): every mark is replaced by a text node of its text and
\* its parent is normalized, which merges the adjacent text nodes
clearHighlights(d) ==
  [i \in 1..Len(d) |->
     IF HasMark(d[i])
     THEN [d[i] EXCEPT !.nodes = IF textContent(d[i]) = "" THEN <<>>
                                 ELSE <<TextNode(textContent(d[i]))>>]
     ELSE d[i]]

\* new RegExp(escapeRegex(query), flags): the escaped source matches the query
\* literally; the flags are 'g', or 'gi' when the search ignores case
RegExp(query, caseSensitive) == [source |-> query, ignoreCase |-> ~caseSensitive]

\* the index (from 0) of the first match of regex in s at or after from, -1
\* when there is none
IndexFrom(s, regex, from) ==
  LET S == IF regex.ignoreCase THEN toLowerCase(s) ELSE s
      N == IF regex.ignoreCase THEN toLowerCase(regex.source) ELSE regex.source
      hits == {i \in from..(Len(S) - Len(N)) : SubSeq(S, i + 1, i + Len(N)) = N}
  IN IF hits = {} THEN -1 ELSE CHOOSE i \in hits : \A j \in hits : i <= j

\* regex.test(s) of a global regex: the search starts at lastIndex, a match
\* moves lastIndex behind it and a failure resets lastIndex to 0
regexTest(s, regex, lastIndex) ==
  LET i == IndexFrom(s, regex, lastIndex)
  IN IF i = -1 THEN [found |-> FALSE, lastIndex |-> 0]
     ELSE [found |-> TRUE, lastIndex |-> i + Len(regex.source)]

\* parent.innerHTML: the texts of the page hold no markup character, so a text
\* node is serialized as its text; a mark is serialized with its tag
MarkOpen ==
  "<mark class=\"ai-assistant-highlight\" style=\"background: #fbbf24; padding: 2px 0; border-radius: 2px;\">"

MarkClose == "</mark>"

RECURSIVE Serialize(_)
Serialize(nodes) ==
  IF nodes = <<>> THEN ""
  ELSE (IF Head(nodes).mark THEN MarkOpen \o Head(nodes).s \o MarkClose
        ELSE Head(nodes).s) \o Serialize(Tail(nodes))

innerHTML(el) == Serialize(el.nodes)

\* html.replace(regex, match => <mark ...>match</mark>) on the text of one
\* node: every match, left to right and without overlap, is wrapped in a mark
RECURSIVE ReplaceIn(_, _, _, _)
ReplaceIn(node, s, regex, call) ==
  LET i == IndexFrom(s, regex, 0)
      n == Len(regex.source)
      piece(t) == IF t = "" THEN <<>> ELSE <<[node EXCEPT !.s = t]>>
  IN IF i = -1 THEN piece(s)
     ELSE piece(SubSeq(s, 1, i))
          \o <<Mark(SubSeq(s, i + 1, i + n), call, node.depth + 1)>>
          \o ReplaceIn(node, SubSeq(s, i + n + 1, Len(s)), regex, call)

RECURSIVE ReplaceAll(_, _, _)
ReplaceAll(nodes, regex, call) ==
  IF nodes = <<>> THEN <<>>
  ELSE ReplaceIn(Head(nodes), Head(nodes).s, regex, call)
       \o ReplaceAll(Tail(nodes), regex, call)

\* the tags whose text nodes the filter of the TreeWalker rejects
SkippedTags == {"script", "style", "noscript"}

\* the loop over walker.nextNode(), at text node j of element i with the
\* lastIndex the regex was left with. The filter tests the text of the node,
\* the loop tests the innerHTML of its parent with the same regex, and the
\* replacement of the parent's innerHTML detaches the current node of the
\* walker, whose nextNode() then finds nothing more.
RECURSIVE Walk(_, _, _, _, _, _)
Walk(d, regex, call, i, j, lastIndex) ==
  IF i > Len(d) THEN [doc |-> d, matches |-> <<>>]
  ELSE IF j > Len(d[i].nodes) THEN Walk(d, regex, call, i + 1, 1, lastIndex)
  ELSE
    LET node == d[i].nodes[j]
        parentTag == IF node.mark THEN "mark" ELSE d[i].tag
        accept == regexTest(node.s, regex, lastIndex)
        html == IF node.mark THEN node.s ELSE innerHTML(d[i])
        again == regexTest(html, regex, accept.lastIndex)
        newNodes == IF node.mark
                    THEN SubSeq(d[i].nodes, 1, j - 1)
                         \o ReplaceIn(node, node.s, regex, call)
                         \o SubSeq(d[i].nodes, j + 1, Len(d[i].nodes))
                    ELSE ReplaceAll(d[i].nodes, regex, call)
    IN IF parentTag \in SkippedTags THEN Walk(d, regex, call, i, j + 1, lastIndex)
       ELSE IF ~accept.found THEN Walk(d, regex, call, i, j + 1, accept.lastIndex)
       ELSE IF ~again.found THEN Walk(d, regex, call, i, j + 1, again.lastIndex)
       ELSE [doc |-> [d EXCEPT ![i].nodes = newNodes],
             matches |-> <<[text |-> node.s, element |-> d[i].id]>>]

\* findAndHighlight(query, caseSensitive), call numbering the invocation
findAndHighlight(d, query, caseSensitive, call) ==
  LET cleared == clearHighlights(d)
      walked == Walk(cleared, RegExp(query, caseSensitive), call, 1, 1, 0)
      P(el) == HasMark(el)
      firstMark == First(walked.doc, P)
  IN IF Len(query) < 2
     THEN [result |-> [success |-> FALSE, error |-> "Query too short", count |-> 0],
           doc |-> cleared, effects |-> <<>>]
     ELSE [result |-> [success |-> TRUE, error |-> "", count |-> Len(walked.matches)],
           doc |-> walked.doc,
           effects |-> IF firstMark = 0 THEN <<>>
                       ELSE <<[op |-> "scroll", el |-> firstMark]>>]

\* the elements the searched pages are made of
FindPool ==
  { Element("p", "two", "foo bar foo"),
    Element("p", "one", "Foo"),
    Element("script", "code", "foo foo"),
    Element("div", "mix", "bar or BAR") }

FindPages == Arrangements(FindPool, MaxElems)

Queries == {"foo", "bar", "Foo", "f"}

InitFind ==
  /\ doc \in FindPages
  /\ effects = <<>>
  /\ toolResult = Undef
  /\ panel = Undef
  /\ ClientIdle
  /\ OrchIdle

\* the number of find_text calls made so far
FindCalls == IF "call" \in DOMAIN toolResult THEN toolResult.call ELSE 0

\* execute_tool{tool: 'find_text', params: {query, case_sensitive}}
FindText(query, caseSensitive) ==
  /\ FindCalls < MaxFinds
  /\ LET run == findAndHighlight(doc, query, caseSensitive, FindCalls + 1)
     IN /\ toolResult' = [tool |-> "find_text", call |-> FindCalls + 1,
                          query |-> query, caseSensitive |-> caseSensitive,
                          result |-> run.result,
                          before |-> IF FindCalls = 0 THEN Undef
                                     ELSE [query |-> toolResult.query,
                                           count |-> toolResult.result.count]]
        /\ effects' = run.effects
        /\ doc' = run.doc
  /\ UNCHANGED <<orchVars, clientVars, panel>>

NextFind == \E query \in Queries, caseSensitive \in BOOLEAN : FindText(query, caseSensitive)

SpecFind == InitFind /\ [][NextFind]_vars

\* the marks of the page: <<element, node>> pairs
Marks == {p \in (1..Len(doc)) \X (1..(2 * MaxFinds + 8)) :
            p[2] <= Len(doc[p[1]].nodes) /\ doc[p[1]].nodes[p[2]].mark}

\* C19: after any sequence of find_text calls every mark of the page was
\* written by the most recent call and wraps a match of its query, no mark
\* lies inside another, the text of every element is the text it had, and a
\* call rejected as too short leaves no mark at all.
C19_OnlyLatestMarks ==
  FindCalls > 0 =>
    /\ \A p \in Marks :
         LET node == doc[p[1]].nodes[p[2]]
         IN /\ node.by = toolResult.call
            /\ node.depth = 1
            /\ IndexFrom(node.s, RegExp(toolResult.query, toolResult.caseSensitive), 0) = 0
            /\ Len(node.s) = Len(toolResult.query)
    /\ \A i \in 1..Len(doc) :
         \E el \in FindPool : el.id = doc[i].id /\ textContent(el) = textContent(doc[i])
    /\ ~toolResult.result.success => Marks = {}

\* a call that wrote marks, after a call with another query that wrote marks
C19_Witness ==
  /\ FindCalls >= 2
  /\ toolResult.before.count >= 1
  /\ toolResult.before.query # toolResult.query
  /\ toolResult.result.count >= 1
  /\ Marks # {}

(***************************************************************************)
(* PageController: extract_data                                            *)
(***************************************************************************)
MaxFields == 2

Digits == "0123456789"

\* the value of each decimal digit
DigitVal ==
  [c \in {SubSeq(Digits, i, i) : i \in 1..10} |->
     (CHOOSE i \in 1..10 : SubSeq(Digits, i, i) = c) - 1]

IsDigit(c) == c \in DOMAIN DigitVal

NaN == [t |-> "number", v |-> "NaN"]

\* the number the leading digits of s denote, after the digits read so far
RECURSIVE ParseDigits(_, _)
ParseDigits(s, acc) ==
  IF Len(s) > 0 /\ IsDigit(SubSeq(s, 1, 1))
  THEN ParseDigits(SubSeq(s, 2, Len(s)), 10 * acc + DigitVal[SubSeq(s, 1, 1)])
  ELSE acc

\* parseFloat(value) for the texts of the page, which hold no sign, point or
\* exponent: leading white space is skipped, the leading digits are the
\* number, and anything else, null and undefined included, is NaN
parseFloat(value) ==
  IF value.t # "string" THEN NaN
  ELSE LET s == SkipSpaces(value.v)
       IN IF Len(s) > 0 /\ IsDigit(SubSeq(s, 1, 1)) THEN Num(ParseDigits(s, 0)) ELSE NaN

\* yyyy-mm-dd, the one date form the pages hold
IsIsoDate(s) ==
  /\ Len(s) = 10
  /\ \A i \in {1, 2, 3, 4, 6, 7, 9, 10} : IsDigit(SubSeq(s, i, i))
  /\ SubSeq(s, 5, 5) = "-"
  /\ SubSeq(s, 8, 8) = "-"

\* new Date(value).toISOString(): null is the epoch; undefined and a text that
\* is no date give an invalid date, for which toISOString throws a RangeError
toISOString(value) ==
  CASE value.t = "null" -> [threw |-> FALSE, value |-> Str("1970-01-01T00:00:00.000Z")]
    [] value.t = "string" /\ IsIsoDate(value.v) ->
         [threw |-> FALSE, value |-> Str(value.v \o "T00:00:00.000Z")]
    [] OTHER -> [threw |-> TRUE, value |-> Str("Invalid time value")]

RECURSIVE SkipTrailing(_)
SkipTrailing(s) ==
  IF Len(s) > 0 /\ SubSeq(s, Len(s), Len(s)) = " "
  THEN SkipTrailing(SubSeq(s, 1, Len(s) - 1)) ELSE s

\* value?.trim()
trim(value) ==
  IF IsNullish(value) THEN Undef
  ELSE IF value.t = "string" THEN Str(SkipTrailing(SkipSpaces(value.v)))
  ELSE Undef

\* element.getAttribute(attribute): null for an attribute the element lacks
getAttribute(el, attribute) ==
  LET held == CASE attribute = "id" -> el.id
                [] attribute = "name" -> el.name
                [] attribute = "href" -> el.href
                [] attribute = "aria-label" -> el.aria
                [] attribute = "placeholder" -> el.placeholder
                [] attribute = "for" -> el.htmlFor
                [] OTHER -> ""
  IN IF held = "" THEN Null ELSE Str(held)

\* the switch of extractValue: the property or the attribute that is read. The
\* href property exists on links, the value property on form controls; no
\* element of the pages has a src.
ReadValue(el, attribute) ==
  CASE attribute = "text" -> Str(textContent(el))
    [] attribute = "html" -> Str(innerHTML(el))
    [] attribute = "href" -> IF el.tag = "a" THEN Str(el.href) ELSE Undef
    [] attribute = "src" -> Undef
    [] attribute = "value" -> IF el.tag \in {"input", "select", "textarea"}
                              THEN Str(el.value) ELSE Undef
    [] OTHER -> getAttribute(el, attribute)

\* extractValue(element, attribute = 'text', transform), el = 0 being an
\* undefined element and attribute = "" an attribute that was not given
extractValue(d, el, attribute, transform) ==
  IF el = 0 THEN [threw |-> FALSE, value |-> Null]
  ELSE LET read == ReadValue(d[el], IF attribute = "" THEN "text" ELSE attribute)
       IN CASE transform = "number" -> [threw |-> FALSE, value |-> parseFloat(read)]
            [] transform = "date" -> toISOString(read)
            [] transform = "trim" -> [threw |-> FALSE, value |-> trim(read)]
            [] OTHER -> [threw |-> FALSE, value |-> read]

NameChars == "abcdefghijklmnopqrstuvwxyzABCDEFGHIJKLMNOPQRSTUVWXYZ0123456789-_"

IsName(s) ==
  /\ Len(s) > 0
  /\ \A i \in 1..Len(s) : Includes(NameChars, SubSeq(s, i, i))

\* whether querySelectorAll parses the selector; it throws a SyntaxError
\* otherwise
ValidSelector(selector) ==
  IF Len(selector) > 0 /\ SubSeq(selector, 1, 1) = "#"
  THEN IsName(SubSeq(selector, 2, Len(selector)))
  ELSE IsName(selector)

\* data[key] = { error: error.message }
ErrorMarker(msg) == Obj([error |-> Str(msg)])

\* the values of elements.map(el => extractValue(el, ...)), which throws when
\* one of them does
RECURSIVE MapValues(_, _, _, _)
MapValues(d, els, attribute, transform) ==
  IF els = <<>> THEN [threw |-> FALSE, value |-> <<>>]
  ELSE LET one == extractValue(d, Head(els), attribute, transform)
           rest == MapValues(d, Tail(els), attribute, transform)
       IN IF one.threw THEN one
          ELSE IF rest.threw THEN rest
          ELSE [threw |-> FALSE, value |-> <<one.value>> \o rest.value]

\* one turn of the loop of extractData: the entries the field adds to data.
\* An absent selector or evaluate entry is "", which is as falsy as undefined.
ExtractField(d, key, config, evalOutcome) ==
  LET elements == querySelectorAll(d, config.selector)
      many == MapValues(d, elements, config.attribute, config.transform)
      single == extractValue(d, IF elements = <<>> THEN 0 ELSE elements[1],
                             config.attribute, config.transform)
      caught(msg) == <<[key |-> key, value |-> ErrorMarker(msg)]>>
  IN IF config.selector # ""
     THEN IF ~ValidSelector(config.selector) THEN caught("not a valid selector")
          ELSE IF config.multiple
               THEN IF many.threw THEN caught(many.value.v)
                    ELSE <<[key |-> key, value |-> Arr(many.value)]>>
               ELSE IF single.threw THEN caught(single.value.v)
                    ELSE <<[key |-> key, value |-> single.value]>>
     ELSE IF config.evaluate # ""
          THEN IF evalOutcome.threw THEN caught(evalOutcome.value.v)
               ELSE <<[key |-> key, value |-> evalOutcome.value]>>
          ELSE <<>>

\* the strings that were handed to eval, in order
RECURSIVE Evaluated(_)
Evaluated(schema) ==
  IF schema = <<>> THEN <<>>
  ELSE (IF Head(schema).config.selector = "" /\ Head(schema).config.evaluate # ""
        THEN <<[op |-> "eval", el |-> Head(schema).config.evaluate]>> ELSE <<>>)
       \o Evaluated(Tail(schema))

\* extractData(schema), the schema being the entries of the object in order
RECURSIVE ExtractFields(_, _, _)
ExtractFields(d, schema, evalOutcome) ==
  IF schema = <<>> THEN <<>>
  ELSE ExtractField(d, Head(schema).key, Head(schema).config, evalOutcome)
       \o ExtractFields(d, Tail(schema), evalOutcome)

extractData(d, schema, evalOutcome) ==
  [result |-> [success |-> TRUE, data |-> ExtractFields(d, schema, evalOutcome)],
   effects |-> Evaluated(schema)]

\* a field of a schema
Field(key, selector) ==
  [key |-> key,
   config |-> [selector |-> selector, attribute |-> "", multiple |-> FALSE,
               transform |-> "", evaluate |-> ""]]

FieldPool ==
  { Field("title", "h1"),
    Field("missing", "#nope"),
    [Field("price", "#price") EXCEPT !.config.transform = "number"],
    [Field("when", "h1") EXCEPT !.config.transform = "date"],
    Field("bad", "h1["),
    [Field("links", "a") EXCEPT !.config.multiple = TRUE, !.config.attribute = "href"],
    [Field("calc", "") EXCEPT !.config.evaluate = "document.title"] }

Schemas == Arrangements(FieldPool, MaxFields)

\* what eval can come to: the value of the expression, or the EvalError of a
\* page whose content security policy forbids eval
EvalOutcomes ==
  { [threw |-> FALSE, value |-> Str("Shop")],
    [threw |-> TRUE, value |-> Str("Refused to evaluate a string as JavaScript")] }

ExtractPool ==
  { Element("h1", "head", "Offer"),
    Element("span", "price", " 42 items"),
    [Element("a", "more", "More") EXCEPT !.href = "https://shop.example/more"] }

ExtractPages == Arrangements(ExtractPool, MaxElems)

InitExtract ==
  /\ doc \in ExtractPages
  /\ effects = <<>>
  /\ toolResult = Undef
  /\ panel = Undef
  /\ ClientIdle
  /\ OrchIdle

\* execute_tool{tool: 'extract_data', params: {schema}}
ExtractData(schema, evalOutcome) ==
  /\ LET run == extractData(doc, schema, evalOutcome)
     IN /\ toolResult' = [tool |-> "extract_data", schema |-> schema,
                          result |-> run.result]
        /\ effects' = run.effects
  /\ UNCHANGED <<doc, orchVars, clientVars, panel>>

\* eval has an outcome when the schema has a field that reaches it
OutcomesFor(schema) ==
  IF Evaluated(schema) = <<>> THEN {[threw |-> FALSE, value |-> Undef]} ELSE EvalOutcomes

NextExtract ==
  \E schema \in Schemas : \E evalOutcome \in OutcomesFor(schema) :
    ExtractData(schema, evalOutcome)

SpecExtract == InitExtract /\ [][NextExtract]_vars

ExtractAnswered == "tool" \in DOMAIN toolResult /\ toolResult.tool = "extract_data"

\* the value data holds under key, undefined when it has no such key
DataOf(key) ==
  LET entries == toolResult.result.data
      at == {i \in 1..Len(entries) : entries[i].key = key}
  IN IF at = {} THEN Undef ELSE entries[CHOOSE i \in at : TRUE].value

IsErrorMarker(v) == v.t = "object" /\ "error" \in DOMAIN v.v

\* a selector field for one element whose selector matches nothing
MatchesNothing(field) ==
  /\ field.config.selector # ""
  /\ ValidSelector(field.config.selector)
  /\ ~field.config.multiple
  /\ querySelectorAll(doc, field.config.selector) = <<>>

\* a selector field for one element whose selector matches and which has no
\* transform
PlainMatch(field) ==
  /\ field.config.selector # ""
  /\ ValidSelector(field.config.selector)
  /\ ~field.config.multiple
  /\ field.config.transform = ""
  /\ querySelectorAll(doc, field.config.selector) # <<>>

\* C20: the result of extract_data succeeds and holds, for every field whose
\* selector matches nothing, an error marker under the key of the field, and
\* for every other field a value under its key: the extracted text for a plain
\* field whose selector matches.
C20_MissingFieldMarked ==
  ExtractAnswered =>
    /\ toolResult.result.success
    /\ \A i \in 1..Len(toolResult.schema) :
         LET field == toolResult.schema[i]
         IN /\ DataOf(field.key) # Undef
            /\ MatchesNothing(field) => IsErrorMarker(DataOf(field.key))
            /\ PlainMatch(field) =>
                 DataOf(field.key) =
                   Str(textContent(doc[querySelectorAll(doc, field.config.selector)[1]]))

\* C21: extract_data never hands a string of the schema to eval: whatever the
\* schema, an 'evaluate' entry included, no evaluation is among the effects of
\* the call and a field without selector adds nothing to data.
C21_NoCodeEvaluation ==
  ExtractAnswered =>
    /\ \A i \in 1..Len(effects) : effects[i].op # "eval"
    /\ \A i \in 1..Len(toolResult.schema) :
         toolResult.schema[i].config.selector = "" =>
           DataOf(toolResult.schema[i].key) = Undef

(***************************************************************************)
(* StorageManager over a storage area of several keys                      *)
(***************************************************************************)
StorageKeys == {"test", "key"}

StoredValues == {Str("value"), Str("other")}

\* Map.prototype.set, and the write of one key into the storage area
MapSet(mp, key, value) ==
  [k \in DOMAIN mp \cup {key} |-> IF k = key THEN value ELSE mp[k]]

\* Map.prototype.delete, and the removal of one key from the storage area
MapDelete(mp, key) == [k \in DOMAIN mp \ {key} |-> mp[k]]

\* chrome.storage.local.get(key): an object that holds the key when the area
\* holds it
LocalGet(area, key) == [k \in DOMAIN area \cap {key} |-> area[k]]

\* StorageManager.get(key) answers undefined without a look at the storage
get_NoRead(c, area, key, readOk) == [value |-> Undef, cache |-> c, calls |-> <<>>]

\* StorageManager.get(key): the value of the cache when it has the key, else
\* the value the storage holds under the key, which is cached; null when the
\* read fails. calls are the calls of chrome.storage.local that were made.
get(c, area, key, readOk) ==
  LET found == LocalGet(area, key)
      value == Get(found, key)
      call == <<[op |-> "storage.get", el |-> key]>>
  IN IF key \in DOMAIN c THEN [value |-> c[key], cache |-> c, calls |-> <<>>]
     ELSE IF readOk THEN [value |-> value, cache |-> MapSet(c, key, value), calls |-> call]
     ELSE [value |-> Null, cache |-> c, calls |-> call]

set_CachesFirst(c, area, key, value, writeOk) ==
  LET call == <<[op |-> "storage.set", el |-> [k \in {key} |-> value]]>>
  IN IF writeOk
     THEN [value |-> TRUE, cache |-> MapSet(c, key, value),
           area |-> MapSet(area, key, value), calls |-> call]
     ELSE [value |-> FALSE, cache |-> MapSet(c, key, value), area |-> area, calls |-> call]

\* StorageManager.set(key, value): writes { [key]: value } and then caches the
\* value; false, with nothing cached, when the write fails
set(c, area, key, value, writeOk) ==
  LET call == <<[op |-> "storage.set", el |-> [k \in {key} |-> value]]>>
  IN IF writeOk
     THEN [value |-> TRUE, cache |-> MapSet(c, key, value),
           area |-> MapSet(area, key, value), calls |-> call]
     ELSE [value |-> FALSE, cache |-> c, area |-> area, calls |-> call]

\* StorageManager.remove(key)
remove(c, area, key, writeOk) ==
  LET call == <<[op |-> "storage.remove", el |-> key]>>
  IN IF writeOk
     THEN [value |-> TRUE, cache |-> MapDelete(c, key),
           area |-> MapDelete(area, key), calls |-> call]
     ELSE [value |-> FALSE, cache |-> c, area |-> area, calls |-> call]

\* StorageManager.clear()
clear(c, area, writeOk) ==
  LET call == <<[op |-> "storage.clear", el |-> ""]>>
  IN IF writeOk
     THEN [value |-> TRUE, cache |-> EmptyObj, area |-> EmptyObj, calls |-> call]
     ELSE [value |-> FALSE, cache |-> c, area |-> area, calls |-> call]

\* the storage areas a new StorageManager can be constructed over
StorageAreas == UNION {[S -> StoredValues] : S \in SUBSET StorageKeys}

\* new StorageManager(): store is the storage area, cache the empty Map
InitStorage ==
  /\ store \in StorageAreas
  /\ cache = EmptyObj
  /\ effects = <<>>
  /\ toolResult = Undef
  /\ panel = Undef
  /\ doc = <<>>
  /\ build \in Builds
  /\ ai = Null
  /\ initialized = FALSE
  /\ sessions = [t \in Tabs |-> 0]
  /\ objs = [k \in 1..MaxTurns |-> NoSession]
  /\ turns = [k \in 1..MaxTurns |-> NoTurn]
  /\ lastReply = Undef
  /\ now = 0
  /\ ClientIdle

\* what a call of StorageManager leaves behind: the call, the state it found
\* and its answer
StorageCall(op, key, value, run) ==
  /\ toolResult' = [op |-> op, key |-> key, value |-> value, result |-> run.value,
                    cached |-> key \in DOMAIN cache, area |-> store]
  /\ effects' = run.calls
  /\ cache' = run.cache

StorageGetKey(key, readOk) ==
  /\ StorageCall("get", key, Undef, get(cache, store, key, readOk))
  /\ UNCHANGED <<store, doc, build, ai, initialized, sessions, objs, turns, lastReply,
                 now, clientVars, panel>>

StorageSetKey(key, value, writeOk) ==
  /\ StorageCall("set", key, value, set(cache, store, key, value, writeOk))
  /\ store' = set(cache, store, key, value, writeOk).area
  /\ UNCHANGED <<doc, build, ai, initialized, sessions, objs, turns, lastReply,
                 now, clientVars, panel>>

StorageRemoveKey(key, writeOk) ==
  /\ StorageCall("remove", key, Undef, remove(cache, store, key, writeOk))
  /\ store' = remove(cache, store, key, writeOk).area
  /\ UNCHANGED <<doc, build, ai, initialized, sessions, objs, turns, lastReply,
                 now, clientVars, panel>>

StorageClear(writeOk) ==
  /\ StorageCall("clear", "", Undef, clear(cache, store, writeOk))
  /\ store' = clear(cache, store, writeOk).area
  /\ UNCHANGED <<doc, build, ai, initialized, sessions, objs, turns, lastReply,
                 now, clientVars, panel>>

NextStorage ==
  \/ \E key \in StorageKeys, readOk \in BOOLEAN : StorageGetKey(key, readOk)
  \/ \E key \in StorageKeys, value \in StoredValues, writeOk \in BOOLEAN :
       StorageSetKey(key, value, writeOk)
  \/ \E key \in StorageKeys, writeOk \in BOOLEAN : StorageRemoveKey(key, writeOk)
  \/ \E writeOk \in BOOLEAN : StorageClear(writeOk)

SpecStorage == InitStorage /\ [][NextStorage]_vars

StorageAnswered(op) == "op" \in DOMAIN toolResult /\ toolResult.op = op

\* C22: get(key) on a key that is not cached makes one query of the storage,
\* for exactly that key, and, the read succeeding, returns the value the
\* storage holds under it; set(key, value) makes one write, of exactly
\* {key: value}.
C22_GetAndSetUseTheKey ==
  /\ (StorageAnswered("get") /\ ~toolResult.cached) =>
       /\ effects = <<[op |-> "storage.get", el |-> toolResult.key]>>
       /\ toolResult.result # Null => toolResult.result = Get(toolResult.area, toolResult.key)
  /\ StorageAnswered("set") =>
       effects = <<[op |-> "storage.set",
                    el |-> [k \in {toolResult.key} |-> toolResult.value]]>>

\* a get of a stored key that was not cached answered its stored value
C22_Witness ==
  /\ StorageAnswered("get")
  /\ ~toolResult.cached
  /\ toolResult.key \in DOMAIN toolResult.area
  /\ toolResult.result = toolResult.area[toolResult.key]
  /\ toolResult.result \in StoredValues

(***************************************************************************)
(* Further properties of AIClient.complete(), checked under SpecClient     *)
(***************************************************************************)
\* C23: when every attempt of a call fails with 429 or 5xx, the call ends, and
\* ends only, with the attempt number maxRetries+1 (maxRetries being the
\* client's field): complete() throws the error of that last attempt, after
\* maxRetries backoff waits, none of them after the last attempt.
C23_RetriesExhausted ==
  FirstFailedRetryable(Len(outcomes)) =>
    /\ Len(outcomes) <= client.maxRetries + 1
    /\ pc = "done" <=> Len(outcomes) = client.maxRetries + 1
    /\ pc = "done" =>
         /\ attempts = client.maxRetries + 1
         /\ Len(delays) = client.maxRetries
         /\ result.state = "thrown"
         /\ result.error = HttpError(Last(outcomes).status)
         /\ result.error = lastError

C23_Witness ==
  /\ pc = "done"
  /\ client.maxRetries = 2
  /\ Len(outcomes) = 3
  /\ FirstFailedRetryable(3)
  /\ outcomes[1].status = 429
  /\ outcomes[3].status = 503
  /\ result.error = HttpError(503)

\* a finished attempt that failed with neither a timeout nor one of the
\* statuses 400, 401, 403, 429 and 5xx
OtherFailure(o) ==
  /\ o.kind \notin {"ok", "aborted"}
  /\ o.status \notin {400, 401, 403}
  /\ ~RetryableStatus(o.status)

\* C24: an attempt that fails with anything but a timeout or HTTP
\* 400/401/403/429/5xx (HTTP 404, a network error without status, a body that
\* cannot be translated, an unknown provider tag) is the last attempt of the
\* call: complete() has thrown that very error, no backoff and no fetch
\* followed it; a client with an unknown provider tag never fetches.
C24_OtherFailuresTerminal ==
  /\ \A i \in 1..Len(outcomes) :
       OtherFailure(outcomes[i]) =>
         /\ i = Len(outcomes)
         /\ pc = "done"
         /\ Len(delays) = i - 1
         /\ attempts <= i
         /\ result.state = "thrown"
         /\ result.error = lastError
         /\ lastError.msg = outcomes[i].kind
         /\ lastError.status = outcomes[i].status
  /\ client.provider \notin Providers =>
       /\ attempts = 0
       /\ pc \in {"idle", "done"}
       /\ pc = "done" => result.error = UnknownProviderError /\ outcomes[1].kind = "unknown_provider"

\* a 404 that followed a retried 429 ended the call, with retries left
C24_Witness ==
  /\ pc = "done"
  /\ Len(outcomes) = 2
  /\ outcomes[1].status = 429
  /\ outcomes[2].status = 404
  /\ client.maxRetries >= 2
  /\ result.error = HttpError(404)

(***************************************************************************)
(* AIClient.complete() on a clock: the timers fire no earlier than due      *)
(***************************************************************************)
MaxTicks == 8

\* the step of the clock, in milliseconds
TickMs == 500

\* clients whose timeout is shorter than the second backoff wait
DeadlineConfigs ==
  { [provider |-> Str(p), maxRetries |-> Num(m), timeout |-> Num(1500)] :
      p \in {"openai", "local"}, m \in {1, 2} }

DeadlineStatuses == {200, 404, 429}

InitDeadline ==
  /\ cfg \in DeadlineConfigs
  /\ client = AIClient(cfg)
  /\ pc = "idle"
  /\ attempt = 0
  /\ lastError = Undef
  /\ httpStatus = 0
  /\ timerArmed = FALSE
  /\ result = Pending
  /\ attempts = 0
  /\ delays = <<>>
  /\ outcomes = <<>>
  /\ data = Undef
  /\ timers = NoTimers
  /\ OrchIdle
  /\ PageIdle

\* time passes
Tick ==
  /\ now < MaxTicks * TickMs
  /\ now' = now + TickMs
  /\ UNCHANGED <<build, store, cache, ai, initialized, sessions, objs, turns, lastReply,
                 clientVars, pageVars>>

\* the timer of the attempt is due and its callback runs
TimerExpires ==
  /\ \E t \in timers.pending : t.kind = "abort" /\ t.due <= now
  /\ TimerFires

\* the timer of the backoff wait is due and its promise resolves
BackoffOver ==
  /\ \E t \in timers.pending : t.kind = "backoff" /\ t.due <= now
  /\ BackoffElapses

NextDeadline ==
  \/ complete
  \/ \E status \in DeadlineStatuses : FetchResponds(status)
  \/ FetchFails
  \/ ErrorBodyRead
  \/ \E d \in WireData(client.provider) : BodyRead(d)
  \/ TimerExpires
  \/ BackoffOver
  \/ Tick

SpecDeadline == InitDeadline /\ [][NextDeadline]_vars

\* C25: every attempt has a deadline of its own, timeout after its own start:
\* the timer pending for an attempt is due timeout after that attempt
\* started, whatever time earlier attempts and backoff waits took, no attempt
\* is aborted before its own deadline, and while an attempt is in flight the
\* only timer pending is its own.
C25_DeadlinePerAttempt ==
  /\ \A t \in timers.pending :
       t.kind = "abort" => t.due = timers.starts[t.attempt + 1] + client.timeout
  /\ \A i \in 1..Len(outcomes) :
       outcomes[i].aborted => timers.ends[i] >= timers.starts[i] + client.timeout
  /\ pc \in {"fetch", "okbody", "errbody"} =>
       timers.pending = {[kind |-> "abort", attempt |-> attempt,
                          due |-> timers.starts[attempt + 1] + client.timeout]}

\* the second attempt was aborted at its own deadline, having started after
\* the deadline of the first attempt had passed during the backoff wait
C25_Witness ==
  /\ Len(outcomes) = 2
  /\ outcomes[1].status = 429
  /\ outcomes[2].aborted
  /\ timers.starts[2] > timers.starts[1] + client.timeout
  /\ timers.ends[2] = timers.starts[2] + client.timeout
  /\ result.error = TimeoutError

(***************************************************************************)
(* Properties of the course of a chat turn, checked under SpecTurns        *)
(***************************************************************************)
\* the step just taken delivered the result of handleChat for a chat message
ChatAnswered ==
  /\ "action" \in DOMAIN lastReply
  /\ lastReply.action = "chat"
  /\ lastReply.reply.kind = "chat"

\* the calls of turn t for which an execute_tool message went out
SentCalls(t) == {t.log[j].call : j \in {h \in 1..Len(t.log) : t.log[h].ev = "send"}}

\* C26: a chat turn awaits the provider, then either ends or executes the
\* tool calls of the first response and awaits the provider a second time,
\* and then ends: one provider call without tool calls and two with, one
\* batch of tool calls at most, each call dispatched once, and the tool calls
\* of the final response are not executed.
C26_TurnStateMachine ==
  /\ \A k \in 1..MaxTurns :
       LET t == turns[k]
       IN /\ t.pc \in {"none", "model1", "tools", "model2", "done"}
          /\ t.pc = "none" => t.fetches = 0
          /\ t.pc = "model1" => t.fetches = 1 /\ t.calls = <<>> /\ t.log = <<>>
          /\ t.pc = "tools" => t.fetches = 1 /\ Len(t.calls) > 0
          /\ t.pc = "model2" =>
               /\ t.fetches = 2
               /\ Len(t.calls) > 0
               /\ t.outstanding = {}
               /\ Len(t.results) = Len(t.calls)
          /\ t.pc = "done" => t.fetches <= 2
          /\ SentCalls(t) \subseteq 1..Len(t.calls)
          /\ \A i, j \in 1..Len(t.log) :
               (t.log[i].ev = "send" /\ t.log[j].ev = "send"
                  /\ t.log[i].call = t.log[j].call) => i = j
  /\ ChatAnswered =>
       /\ turns[lastReply.turn].pc = "done"
       /\ turns[lastReply.turn].fetches =
            (IF lastReply.reply.usedTools = <<>> THEN 1 ELSE 2)
       /\ Len(lastReply.reply.actions) = Len(lastReply.reply.usedTools)

\* a turn that used two tools ended with a final response that carried tool
\* calls again
C26_Witness ==
  /\ ChatAnswered
  /\ Len(lastReply.reply.usedTools) = 2
  /\ lastReply.reply.response = Str("")
  /\ turns[lastReply.turn].fetches = 2

\* C27: the messages of the second provider call of a turn are the session
\* history followed by one assistant message that carries the tool calls of
\* the first response and then one tool message per tool call, in the order
\* of the calls, the i-th tagged with the id of the i-th call and carrying the
\* JSON text of the result of that call.
C27_SecondCallMessages ==
  \A k \in 1..MaxTurns :
    turns[k].pc = "model2" =>
      LET t == turns[k]
          h == objs[t.session].history
          n == Len(t.calls)
          m == t.messages
      IN /\ Len(m) = Len(h) + 1 + n
         /\ SubSeq(m, 1, Len(h)) = h
         /\ m[Len(h) + 1].role = "assistant"
         /\ m[Len(h) + 1].tool_calls = t.calls
         /\ \A i \in 1..n :
              /\ m[Len(h) + 1 + i].role = "tool"
              /\ m[Len(h) + 1 + i].tool_call_id = t.calls[i].id
              /\ t.results[i].re = t.calls[i].id
              /\ m[Len(h) + 1 + i].content = StringifyResult(t.results[i])

\* a second provider call after two tool calls of which the first failed
C27_Witness ==
  \E k \in 1..MaxTurns :
    /\ turns[k].pc = "model2"
    /\ Len(turns[k].calls) = 2
    /\ ~turns[k].results[1].success
    /\ turns[k].results[2].success
    /\ turns[k].messages[Len(turns[k].messages)].tool_call_id = Str("call_2")
    /\ turns[k].messages[Len(turns[k].messages)].content = "{\"success\":true}"

(***************************************************************************)
(* Properties of trimming and eviction                                     *)
(***************************************************************************)
\* C28: trimming is a plain sliding window: the history a completed turn
\* leaves is the history before the step with the assistant message appended
\* when that has at most MAX_HISTORY_PER_TAB entries, and exactly its last
\* MAX_HISTORY_PER_TAB entries, in their order, when it has more.
C28_PlainSlidingWindow ==
  [][\A k \in 1..MaxTurns :
       (turns[k].pc \in {"model1", "model2"} /\ ChatAnswered' /\ lastReply'.turn = k) =>
         LET sid == turns[k].session
             untrimmed == Append(objs[sid].history,
                                 AssistantMessage(k, lastReply'.reply.response))
             L == Len(untrimmed)
         IN objs'[sid].history =
              IF L > MAX_HISTORY_PER_TAB
              THEN SubSeq(untrimmed, L - MAX_HISTORY_PER_TAB + 1, L)
              ELSE untrimmed]_vars

(***************************************************************************)
(* AIBrowserAssistant: the staleness sweep, on a clock                     *)
(***************************************************************************)
\* what chrome.tabs.get answers for an activated tab: a rejection or a tab
\* with its url (a tab without url is the answer "nourl")
TabLookups == {"rejected"} \cup Urls

\* chrome.tabs.onActivated for a tab: updateActiveContext looks the tab up and
\* hands its url to handleNavigation (part_001 only when there is a url)
updateActiveContext(tab, got) ==
  /\ initialized
  /\ IF got \in Urls THEN handleNavigation(tab, got)
     ELSE /\ IF got = "nourl" /\ build = "background" /\ sessions[tab] # 0
             THEN /\ CountSystem(objs[sessions[tab]].history) < MaxNavs
                  /\ objs' = [objs EXCEPT
                       ![sessions[tab]].pageContext = [url |-> Undef, timestamp |-> now],
                       ![sessions[tab]].history = Append(@, SystemMessage("undefined"))]
             ELSE UNCHANGED objs
          /\ lastReply' = Undef
          /\ UNCHANGED <<build, store, cache, ai, initialized, sessions, turns, now,
                         clientVars, pageVars>>

\* how many times the session-cleanup alarm fires
MaxPeriods == 3

\* periodInMinutes: 30 of the session-cleanup alarm, in milliseconds
AlarmPeriodMs == 1800000

\* CONFIG.STALE_SESSION_MS (part_001), staleThreshold (background.js)
STALE_SESSION_MS == 3600000

\* a session is stale from the threshold on
IsStale_AtThreshold(t, session) == t - session.lastActivity >= STALE_SESSION_MS

\* the test of cleanupStaleSessions
IsStale(t, session) == t - session.lastActivity > STALE_SESSION_MS

\* a period after the last one the session-cleanup alarm fires, Date.now()
\* reads t, and cleanupStaleSessions deletes every stale session
cleanupStaleSessions(t) ==
  /\ initialized
  /\ t = now + AlarmPeriodMs
  /\ t <= MaxPeriods * AlarmPeriodMs
  /\ now' = t
  /\ sessions' = [tab \in Tabs |->
                    IF sessions[tab] # 0 /\ IsStale(t, objs[sessions[tab]]) THEN 0
                    ELSE sessions[tab]]
  /\ lastReply' = [event |-> "alarm", at |-> t]
  /\ UNCHANGED <<build, store, cache, ai, initialized, objs, turns, clientVars, pageVars>>

\* when the alarm fires
AlarmTimes == { p * AlarmPeriodMs : p \in 1..MaxPeriods }

\* a chat turn of each tab (turn k is the one of tab k), the two overlapping
\* or not, administrative messages, tab events and the alarm every period
NextSessions ==
  \/ \E tab \in Tabs : Chat(tab, tab)
  \/ \E k \in 1..MaxTurns, r \in PlainResponses : ModelResponds(k, r)
  \/ \E k \in 1..MaxTurns : ModelFails(k)
  \/ \E tab \in Tabs : ClearHistory(tab)
  \/ \E tab \in Tabs : cleanupTab(tab)
  \/ \E tab \in Tabs, url \in Urls : handleNavigation(tab, url)
  \/ \E t \in AlarmTimes : cleanupStaleSessions(t)

SpecSessions == InitTurns /\ [][NextSessions]_vars

\* the step just taken was a sweep
JustSwept == "event" \in DOMAIN lastReply /\ lastReply.event = "alarm"

\* the session of a tab: what the Map holds for it
SessionOf(tab) == IF sessions[tab] = 0 THEN Undef ELSE objs[sessions[tab]]

\* C29: a sweep removes the session of a tab exactly when the lastActivity of
\* the session lies more than one hour before the sweep, and leaves every
\* other session, and every session object, as it is.
C29_SweepRemovesStaleOnly ==
  [][JustSwept' =>
       /\ \A tab \in Tabs :
            sessions[tab] # 0 =>
              IF objs[sessions[tab]].lastActivity + 60 * 60 * 1000 < now'
              THEN sessions'[tab] = 0
              ELSE sessions'[tab] = sessions[tab]
       /\ \A tab \in Tabs : sessions[tab] = 0 => sessions'[tab] = 0
       /\ objs' = objs]_vars

\* a sweep removed the session of tab 1, an hour and a half old, and left the
\* session of tab 2, one hour old, with its history
C29_Witness ==
  /\ JustSwept
  /\ sessions[1] = 0
  /\ objs[1].lastActivity + 60 * 60 * 1000 < now
  /\ Len(objs[1].history) > 0
  /\ sessions[2] # 0
  /\ SessionOf(2).lastActivity + 60 * 60 * 1000 = now
  /\ Len(SessionOf(2).history) > 0

\* the step is one of the operations of a tab: a chat message of the tab, the
\* provider's answer to a turn of the tab, a clear_history of the tab, its
\* tab-close event or a navigation in it
StepOfTab(tab) ==
  \/ \E k \in 1..MaxTurns : Chat(k, tab)
  \/ \E k \in 1..MaxTurns :
       /\ turns[k].tab = tab
       /\ \/ ModelFails(k)
          \/ \E r \in PlainResponses : ModelResponds(k, r)
  \/ ClearHistory(tab)
  \/ cleanupTab(tab)
  \/ \E url \in Urls : handleNavigation(tab, url)

\* C30: an operation of tab A (chat turn, clear_history, tab-close,
\* navigation) leaves the session of every other tab B as it is: whether it
\* exists, its history, its pageContext and its lastActivity.
C30_TabsIndependent ==
  [][\A a \in Tabs, b \in Tabs :
       (a # b /\ StepOfTab(a)) => SessionOf(b)' = SessionOf(b)]_vars

\* tab 1 was closed while tab 2 has a session with a history, a page context
\* and a later lastActivity
C30_Witness ==
  /\ JustRemoved(1)
  /\ sessions[1] = 0
  /\ Len(objs[1].history) > 0
  /\ sessions[2] # 0
  /\ Len(SessionOf(2).history) > 1
  /\ SessionOf(2).pageContext # Null
  /\ SessionOf(2).lastActivity > 0

(***************************************************************************)
(* Properties of the life of a session                                     *)
(***************************************************************************)
\* a chat turn of each tab, requests for the history and to clear it, and the
\* events of the browser: tab close, navigation, activation, alarm
NextPresence ==
  \/ \E tab \in Tabs : Chat(tab, tab)
  \/ \E k \in 1..MaxTurns, r \in PlainResponses : ModelResponds(k, r)
  \/ \E tab \in Tabs : GetHistory(tab)
  \/ \E tab \in Tabs : ClearHistory(tab)
  \/ \E tab \in Tabs : cleanupTab(tab)
  \/ \E tab \in Tabs, url \in Urls : handleNavigation(tab, url)
  \/ \E tab \in Tabs, got \in TabLookups : updateActiveContext(tab, got)
  \/ \E t \in AlarmTimes : cleanupStaleSessions(t)

SpecPresence == InitTurns /\ [][NextPresence]_vars

\* C31: a session comes to exist for a tab only in a step that starts a chat
\* turn for that tab (get_history, clear_history, navigation and activation
\* never create one), it ceases to exist only in a tab-close, a clear_history
\* or a sweep, and otherwise the tab keeps the session it has.
C31_SessionOnlyFromChat ==
  [][\A tab \in Tabs :
       /\ (sessions[tab] = 0 /\ sessions'[tab] # 0) => \E k \in 1..MaxTurns : Chat(k, tab)
       /\ (sessions[tab] # 0 /\ sessions'[tab] = 0) =>
            \/ cleanupTab(tab)
            \/ ClearHistory(tab)
            \/ \E t \in AlarmTimes : cleanupStaleSessions(t)
       /\ (sessions[tab] # 0 /\ sessions'[tab] # 0) => sessions'[tab] = sessions[tab]]_vars

\* tab 1, whose session was created by a chat turn and removed since, was asked
\* for its history after a navigation and has no session, while tab 2 has one
C31_Witness ==
  /\ "action" \in DOMAIN lastReply
  /\ lastReply.action = "get_history"
  /\ lastReply.tab = 1
  /\ lastReply.reply.history = <<>>
  /\ turns[1].pc # "none"
  /\ sessions[1] = 0
  /\ sessions[2] # 0

(***************************************************************************)
(* PageController: the execute_tool message, whatever the tool             *)
(***************************************************************************)
\* the keys of the object literal `tools` of executeTool
OwnTools == {"click_element", "fill_form", "scroll_page", "find_text", "extract_data",
             "navigate"}

\* the properties an object literal inherits from Object.prototype
ObjectPrototype == {"constructor", "toString", "toLocaleString", "valueOf",
                    "hasOwnProperty", "isPrototypeOf", "propertyIsEnumerable", "__proto__"}

\* tools[tool]: the handler of the literal, what the literal inherits under
\* that name, or undefined
ToolsLookup(tool) ==
  IF tool \in OwnTools THEN [kind |-> "handler", name |-> tool]
  ELSE IF tool \in ObjectPrototype THEN [kind |-> "inherited", name |-> tool]
  ELSE [kind |-> "undefined", name |-> tool]

\* handler(params) of an inherited property, called as a plain function (this
\* is undefined): Object(params) returns params, Object.prototype.toString
\* returns a string, the other functions throw a TypeError on the missing
\* this, and __proto__ is an object, not a function
CallInherited(name, params) ==
  IF name = "constructor" THEN params
  ELSE IF name = "toString" THEN [string |-> "[object Undefined]"]
  ELSE ToolThrew("TypeError")

\* scrollPage(direction, amount = 500)
scrollPage(direction, amount) ==
  LET by == IF amount = Undef THEN 500 ELSE amount.v
  IN IF direction \in {"up", "down"}
     THEN [result |-> [success |-> TRUE, direction |-> direction, threw |-> FALSE],
           effects |-> <<[op |-> "scrollBy", el |-> IF direction = "up" THEN 0 - by ELSE by]>>]
     ELSE IF direction \in {"top", "bottom"}
     THEN [result |-> [success |-> TRUE, direction |-> direction, threw |-> FALSE],
           effects |-> <<[op |-> "scrollTo", el |-> direction]>>]
     ELSE [result |-> ToolThrew("Unknown direction"), effects |-> <<>>]

\* navigate(url)
navigate(url) ==
  [result |-> [success |-> TRUE, navigating |-> TRUE, threw |-> FALSE],
   effects |-> <<[op |-> "location", el |-> url]>>]

\* the listener, handleMessage and executeTool for an execute_tool request:
\* what is passed to sendResponse, the page afterwards and what was done to it
\* what executeTool passes on from a handler that leaves the page as it is,
\* and from one that rewrites it
OnPage(d, run) == [result |-> run.result, doc |-> d, effects |-> run.effects]

Rewriting(run) == [result |-> run.result, doc |-> run.doc, effects |-> run.effects]

executeTool(d, tool, p) ==
  LET handler == ToolsLookup(tool)
      quiet(r) == [result |-> r, doc |-> d, effects |-> <<>>]
  IN IF handler.kind = "undefined" THEN quiet(ToolThrew("Unknown tool"))
     ELSE IF handler.kind = "inherited" THEN quiet(CallInherited(tool, p))
     ELSE IF tool = "click_element"
     THEN OnPage(d, findAndClick(d, p.description, p.selector))
     ELSE IF tool = "fill_form"
     THEN Rewriting(fillFormField(d, p.field_description, p.value, p.selector))
     ELSE IF tool = "scroll_page"
     THEN OnPage(d, scrollPage(p.direction, p.amount))
     ELSE IF tool = "find_text"
     THEN Rewriting(findAndHighlight(d, p.query, p.case_sensitive, 1))
     ELSE IF tool = "extract_data"
     THEN IF p.schema = Undef THEN quiet(ToolThrew("TypeError"))
          ELSE OnPage(d, extractData(d, p.schema.v, [threw |-> FALSE, value |-> Undef]))
     ELSE OnPage(d, navigate(p.url))

\* the execute_tool requests sent to the page: the six tools with parameters
\* that resolve and that do not, an unknown scroll direction, a missing schema,
\* and tool names the literal does not have as keys
ToolRequests ==
  {[tool |-> "click_element", params |-> [description |-> de, selector |-> se]] :
      de \in {"Save", "Don't save"}, se \in {"", "#nope"}}
  \cup {[tool |-> "fill_form",
         params |-> [field_description |-> de, value |-> "pro", selector |-> ""]] :
      de \in {"Email", "plan"}}
  \cup {[tool |-> "scroll_page", params |-> [direction |-> di, amount |-> am]] :
      di \in {"up", "down", "top", "bottom", "sideways"}, am \in {Undef, Num(200)}}
  \cup {[tool |-> "find_text", params |-> [query |-> q, case_sensitive |-> FALSE]] :
      q \in {"Save", "S"}}
  \cup {[tool |-> "extract_data", params |-> [schema |-> sc]] :
      sc \in {Undef} \cup {Obj(s) : s \in {f \in Schemas : Len(f) = 1 /\ Evaluated(f) = <<>>}}}
  \cup {[tool |-> "navigate", params |-> [url |-> u]] : u \in Urls}
  \cup {[tool |-> n, params |-> [description |-> "Save"]] :
      n \in {"open_tab", "constructor", "toString", "hasOwnProperty"}}

InitTools ==
  /\ doc \in ControlPages
  /\ effects = <<>>
  /\ toolResult = Undef
  /\ panel = Undef
  /\ ClientIdle
  /\ OrchIdle

\* sendResponse(result): the answer of the handler goes back to the sender
sendResponse(request, run) ==
  /\ toolResult' = [request |-> request, result |-> run.result]
  /\ effects' = run.effects
  /\ doc' = run.doc

\* an execute_tool message arrives and is answered
ExecuteTool(request) ==
  /\ sendResponse(request, executeTool(doc, request.tool, request.params))
  /\ UNCHANGED <<orchVars, clientVars, panel>>

NextTools == \E request \in ToolRequests : ExecuteTool(request)

SpecTools == InitTools /\ [][NextTools]_vars

\* the request asks for what the tool cannot do: a tool name that is no key
\* of the literal, an unknown scroll direction, or no schema
Unserviceable(request) ==
  \/ request.tool \notin OwnTools
  \/ request.tool = "scroll_page" /\
       request.params.direction \notin {"up", "down", "top", "bottom"}
  \/ request.tool = "extract_data" /\ request.params.schema = Undef

\* C32: every execute_tool message is answered with a ToolResult that carries
\* a boolean success, and an unknown tool name, an unknown scroll direction or
\* a missing schema is answered with success = false and an error.
C32_AlwaysToolResult ==
  toolResult # Undef =>
    /\ "success" \in DOMAIN toolResult.result
    /\ toolResult.result.success \in BOOLEAN
    /\ Unserviceable(toolResult.request) =>
         /\ toolResult.result.success = FALSE
         /\ "error" \in DOMAIN toolResult.result

(***************************************************************************)
(* Properties of the order of what a tool does to the page                 *)
(***************************************************************************)
\* the last call was a click_element that resolved a visible element, or a
\* fill_form that resolved an element
ActedOnResolved ==
  /\ "tool" \in DOMAIN toolResult
  /\ toolResult.element # 0
  /\ \/ toolResult.tool = "click_element" /\ isVisible(doc, toolResult.element)
     \/ toolResult.tool = "fill_form"

\* the position of the first event of a kind among the effects, 0 when there
\* is none
PositionOf(op) ==
  IF \E i \in 1..Len(effects) : effects[i].op = op
  THEN CHOOSE i \in 1..Len(effects) :
         effects[i].op = op /\ \A j \in 1..(i - 1) : effects[j].op # op
  ELSE 0

\* C33: for click_element and fill_form on a resolved element the events come
\* in the order scroll into view, highlight, settle delay, click or value
\* write; no click, write or event on the element comes before the delay, the
\* result is delivered after the action, as the last event, and an action that
\* throws is answered with success = false and an error.
C33_SettleThenAct ==
  ActedOnResolved =>
    LET acts == {i \in 1..Len(effects) :
                   effects[i].op \in {"click", "value", "input", "change", "keyup"}}
    IN /\ 0 < PositionOf("scrollIntoView")
       /\ PositionOf("scrollIntoView") < PositionOf("flash")
       /\ PositionOf("flash") < PositionOf("wait")
       /\ effects[PositionOf("wait")].el =
            (IF toolResult.tool = "click_element" THEN 500 ELSE 300)
       /\ \A i \in acts : PositionOf("wait") < i
       /\ PositionOf("resolve") = Len(effects)
       /\ toolResult.result.success =>
            PositionOf(IF toolResult.tool = "click_element" THEN "click" ELSE "value") # 0
       /\ ~toolResult.result.success =>
            /\ acts = {}
            /\ toolResult.result.error \in {"Click failed", "Option not found in dropdown"}

\* a click on a visible element went through its four events and succeeded
C33_Witness ==
  /\ ActedOnResolved
  /\ toolResult.tool = "click_element"
  /\ toolResult.result.success
  /\ effects = <<[op |-> "scrollIntoView", el |-> toolResult.element],
                 [op |-> "flash", el |-> toolResult.element],
                 [op |-> "wait", el |-> 500],
                 [op |-> "click", el |-> toolResult.element],
                 [op |-> "resolve", el |-> toolResult.element]>>

\* the element is one the fuzzy stage looks at and its text, value or label
\* contains a keyword of the description in lower case
FuzzyCandidate(el, description) ==
  /\ el.tag \in {"button", "a", "input"}
  /\ \E k \in 1..Len(SplitFrom(toLowerCase(description), "")) :
       \/ Includes(toLowerCase(textContent(el)), SplitFrom(toLowerCase(description), "")[k])
       \/ Includes(toLowerCase(el.value), SplitFrom(toLowerCase(description), "")[k])
       \/ Includes(toLowerCase(el.aria), SplitFrom(toLowerCase(description), "")[k])

\* C34: when click_element reaches the fuzzy stage and a visible interactive
\* element's text, value or label contains a keyword of the description, the
\* call resolves to the first such visible element, whatever invisible
\* elements come before it.
C34_FuzzyVisibleOnly ==
  (ClickAnswered /\ ~toolResult.result.threw /\ toolResult.tried # <<>>
     /\ toolResult.tried[Len(toolResult.tried)] = "fuzzy") =>
    LET visibles == {i \in 1..Len(doc) :
                       isVisible(doc, i) /\ FuzzyCandidate(doc[i], toolResult.description)}
    IN visibles # {} =>
         toolResult.element = CHOOSE i \in visibles : \A j \in visibles : i <= j

\* the query of the last find_text call occurs in the text of an element
\* whose text nodes the search does not skip
QueryOccurs ==
  \E i \in 1..Len(doc) :
    /\ doc[i].tag \notin {"script", "style", "noscript"}
    /\ IndexFrom(textContent(doc[i]),
                 [source |-> toolResult.query, ignoreCase |-> ~toolResult.caseSensitive], 0) # -1

\* C35: a find_text call whose query has at least 2 characters and occurs in
\* a text node outside script, style and noscript reports a count of at least
\* 1 and leaves at least one mark, also when the match is the only text of
\* its parent.
C35_OccurrenceIsMarked ==
  (FindCalls > 0 /\ Len(toolResult.query) >= 2 /\ QueryOccurs) =>
    /\ toolResult.result.success
    /\ toolResult.result.count >= 1
    /\ Marks # {}

(***************************************************************************)
(* Properties of a chat turn whose provider call fails                     *)
(***************************************************************************)
\* the step just taken answered turn k with an error
ChatFailed(k) ==
  /\ "action" \in DOMAIN lastReply
  /\ lastReply.action = "chat"
  /\ lastReply.turn = k
  /\ lastReply.reply.kind = "error"

\* C36: the start of a turn appends its user message and nothing else, and a
\* provider call of the turn that fails leaves the history as it is: the user
\* message stays, no assistant message of the turn is appended and nothing is
\* trimmed, however long the history is.
C36_FailedTurnNotRolledBack ==
  [][\A k \in 1..MaxTurns :
       /\ (turns[k].pc = "none" /\ turns'[k].pc = "model1" /\ sessions[turns'[k].tab] # 0) =>
            objs'[turns'[k].session].history =
              Append(objs[turns'[k].session].history, UserMessage(k))
       /\ (turns[k].pc \in {"model1", "model2"} /\ ChatFailed(k)') =>
            /\ objs'[turns[k].session].history = objs[turns[k].session].history
            /\ \E i \in 1..Len(objs'[turns[k].session].history) :
                 objs'[turns[k].session].history[i] = UserMessage(k)
            /\ \A i \in 1..Len(objs'[turns[k].session].history) :
                 objs'[turns[k].session].history[i].role = "assistant" =>
                   objs'[turns[k].session].history[i].turn # k]_vars

\* two turns in a row have failed on a tab whose history was empty: it holds
\* their two user messages
C36_Witness ==
  /\ ChatFailed(2)
  /\ sessions[1] # 0
  /\ objs[sessions[1]].history = <<UserMessage(1), UserMessage(2)>>

(***************************************************************************)
(* Properties of how the provider client comes to exist                    *)
(***************************************************************************)
\* a chat message that arrives now is refused
ChatRefused == Refused(build, ai, "chat")

\* C37: whether a chat message is refused depends on the stored configuration
\* only: for every stored configuration, the state a start-up reaches by
\* loading it and the state a set_config reaches by storing it refuse, or
\* accept, alike. The start-up refuses exactly when the configuration it
\* loads has no API key.
C37_SameAnswerHoweverLoaded ==
  [][/\ init(TRUE) => (ChatRefused' <=> ~Truthy(GetOpt(store', "apiKey")))
     /\ (\E config \in AIConfigs : SetConfig(config, TRUE)) =>
          (ChatRefused' <=> ~Truthy(GetOpt(store', "apiKey")))]_vars

(***************************************************************************)
(* A session removed while a turn of its tab is in flight                  *)
(***************************************************************************)
\* the answers of the provider with no tool call or with one
OneCallResponses ==
  { r \in ModelResponses("openai") : IsNullish(r.tool_calls) \/ Len(r.tool_calls.v) <= 1 }

\* a chat turn of each tab (turn k is the one of tab k), with or without a
\* tool call, failing or not, while the tab is closed, its history is cleared
\* and its history is asked for
NextLate ==
  \/ \E tab \in Tabs : Chat(tab, tab)
  \/ \E k \in 1..MaxTurns, r \in OneCallResponses : ModelResponds(k, r)
  \/ \E k \in 1..MaxTurns : ModelFails(k)
  \/ \E k \in 1..MaxTurns, i \in 1..MaxCalls, o \in SettleOutcomes : ToolSettles(k, i, o)
  \/ \E tab \in Tabs : ClearHistory(tab)
  \/ \E tab \in Tabs : cleanupTab(tab)
  \/ \E tab \in Tabs : GetHistory(tab)

SpecLate == InitTurns /\ [][NextLate]_vars

\* turn k awaits the provider or the executor
Awaiting(k) == turns[k].pc \in {"model1", "tools", "model2"}

\* C38: when the session of a tab was removed (tab close or clear_history)
\* while a turn of the tab awaits the provider or the executor, no step of
\* that turn, its completion included, gives the tab a session again, and a
\* get_history for a tab without session is answered with an empty history.
C38_LateAppendCreatesNothing ==
  [][/\ \A k \in 1..MaxTurns :
          (Awaiting(k) /\ sessions[turns[k].tab] = 0 /\ turns'[k] # turns[k]) =>
            sessions'[turns[k].tab] = 0
     /\ \A tab \in Tabs :
          (GetHistory(tab) /\ sessions[tab] = 0) =>
            lastReply'.reply = [kind |-> "history", history |-> <<>>]]_vars

\* the turn of tab 1 used a tool and completed after the session of the tab
\* was removed: its messages are in the detached session and the tab has none
C38_Witness ==
  /\ ChatAnswered
  /\ lastReply.tab = 1
  /\ lastReply.turn = 1
  /\ Len(lastReply.reply.actions) > 0
  /\ sessions[1] = 0
  /\ Len(objs[1].history) = 2

(***************************************************************************)
(* SidePanel: sendMessage, from the send button, the Enter key and the     *)
(* quick-action chips                                                      *)
(***************************************************************************)
\* the calls of sendMessage that are followed
MaxSends == 2

\* what the user types into the message input
TypedTexts == {Str(" "), Str("hi ")}

\* the prompt handleQuickAction writes into the message input (summarize)
ChipPrompt == Str("Summarize the main content of this page in 3-4 key points.")

Vias == {"button", "enter", "chip"}

\* a call of sendMessage that has not been made
NoSend == [pc |-> "idle", text |-> ""]

\* the panel after its constructor: no request, an empty input, a
\* StorageManager that has read nothing, init about to read the settings
NewPanel ==
  [isLoading |-> FALSE, disabled |-> FALSE, value |-> Str(""), cache |-> NoCache,
   init |-> "loadSettings", calls |-> [i \in 1..MaxSends |-> NoSend], sent |-> <<>>]

InitPanel ==
  /\ panel = NewPanel
  /\ store \in {Undef} \cup AIConfigs
  /\ cache = NoCache
  /\ build = "part_001"
  /\ ai = Null
  /\ initialized = FALSE
  /\ sessions = [t \in Tabs |-> 0]
  /\ objs = [k \in 1..MaxTurns |-> NoSession]
  /\ turns = [k \in 1..MaxTurns |-> NoTurn]
  /\ lastReply = Undef
  /\ now = 0
  /\ doc = <<>>
  /\ effects = <<>>
  /\ toolResult = Undef
  /\ ClientIdle

PanelStep == UNCHANGED <<doc, effects, toolResult, orchVars, clientVars>>

\* setLoading(loading)
setLoading(p, loading) == [p EXCEPT !.isLoading = loading, !.disabled = loading]

\* init: the read of ai_config in loadSettings, then the one of init itself;
\* a read that fails caches nothing
PanelInitReads(readOk) ==
  /\ panel.init # "done"
  /\ panel' = [panel EXCEPT !.cache = StorageGet(panel.cache, store, readOk).cache,
                            !.init = IF panel.init = "loadSettings" THEN "config"
                                     ELSE "done"]
  /\ PanelStep

\* the user types into the message input
TypeMessage(text) ==
  /\ panel.value # text
  /\ panel' = [panel EXCEPT !.value = text]
  /\ PanelStep

\* sendMessage from the configuration on: without key and not local it opens
\* the settings and returns; otherwise it shows the user message, empties the
\* input, sets the loading flag and asks for the page context
AfterConfig(p, i, config) ==
  IF ~Truthy(GetOpt(config, "apiKey")) /\ GetOpt(config, "provider") # Str("local")
  THEN [p EXCEPT !.calls[i].pc = "settings"]
  ELSE [setLoading(p, TRUE) EXCEPT !.value = Str(""), !.calls[i].pc = "context"]

\* a call of sendMessage up to its first await that a task can follow: the
\* guard on the text and the loading flag, and, when the StorageManager holds
\* ai_config, everything up to the request for the page context (a cache hit
\* resolves within the task of the event)
sendMessage(p, i) ==
  LET text == trim(p.value).v
  IN IF text = "" \/ p.isLoading THEN [p EXCEPT !.calls[i] = [pc |-> "returned", text |-> text]]
     ELSE IF p.cache.has
     THEN AfterConfig([p EXCEPT !.calls[i] = [pc |-> "config", text |-> text]], i,
                      p.cache.value)
     ELSE [p EXCEPT !.calls[i] = [pc |-> "config", text |-> text]]

\* handleQuickAction(action) for a known action
handleQuickAction(p, i) == sendMessage([p EXCEPT !.value = ChipPrompt], i)

\* the i-th call of sendMessage: a click on the send button (which a disabled
\* button does not deliver), Enter in the input, or a chip
Invoke(i, via) ==
  /\ panel.calls[i].pc = "idle"
  /\ \A j \in 1..(i - 1) : panel.calls[j].pc # "idle"
  /\ via = "button" => ~panel.disabled
  /\ panel' = IF via = "chip" THEN handleQuickAction(panel, i) ELSE sendMessage(panel, i)
  /\ PanelStep

\* the read of chrome.storage.local that call i waits for settles: the
\* StorageManager caches what it read, and the call goes on
ConfigRead(i, readOk) ==
  /\ panel.calls[i].pc = "config"
  /\ LET got == StorageGet(NoCache, store, readOk)
     IN panel' = AfterConfig([panel EXCEPT !.cache = IF readOk THEN got.cache ELSE @],
                             i, got.value)
  /\ PanelStep

\* getPageContext settles and the chat message goes to the service worker
PageContextRead(i) ==
  /\ panel.calls[i].pc = "context"
  /\ panel' = [panel EXCEPT !.calls[i].pc = "reply",
                            !.sent = Append(@, panel.calls[i].text)]
  /\ PanelStep

\* the answer of the service worker, or its failure: finally setLoading(false)
ReplyArrives(i) ==
  /\ panel.calls[i].pc = "reply"
  /\ panel' = [setLoading(panel, FALSE) EXCEPT !.calls[i].pc = "done"]
  /\ PanelStep

NextPanel ==
  \/ \E readOk \in BOOLEAN : PanelInitReads(readOk)
  \/ \E text \in TypedTexts : TypeMessage(text)
  \/ \E i \in 1..MaxSends, via \in Vias : Invoke(i, via)
  \/ \E i \in 1..MaxSends, readOk \in BOOLEAN : ConfigRead(i, readOk)
  \/ \E i \in 1..MaxSends : PageContextRead(i)
  \/ \E i \in 1..MaxSends : ReplyArrives(i)

SpecPanel == InitPanel /\ [][NextPanel]_vars

\* the calls of sendMessage whose chat message awaits its answer
ChatsInFlight == {i \in 1..MaxSends : panel.calls[i].pc = "reply"}

\* C39: the side panel has at most one chat request in flight: a sendMessage
\* called while an earlier one has not finished sends no chat message,
\* whatever the interleaving of the two.
C39_OneChatInFlight == Cardinality(ChatsInFlight) <= 1

(***************************************************************************)
(* StorageManager: the cache against the storage, checked under            *)
(* SpecStorage                                                             *)
(***************************************************************************)
\* C40: the cache of a StorageManager is write-through and never ahead of the
\* storage: after a set(key, v) that succeeds, a get(key) returns v without a
\* read of the storage (whether a read would succeed or not); a set whose
\* write fails returns false and leaves the cache as it was; a get whose read
\* fails returns null and caches nothing, so that the next get of the key
\* reads the storage again; and what is cached under a key is what the
\* storage holds under it.
C40_CacheWriteThrough ==
  [][/\ \A key \in StorageKeys, value \in StoredValues :
          /\ (toolResult'.op = "set" /\ StorageSetKey(key, value, TRUE)) =>
               /\ toolResult'.result = TRUE
               /\ \A readOk \in BOOLEAN :
                    get(cache', store', key, readOk) =
                      [value |-> value, cache |-> cache', calls |-> <<>>]
          /\ (toolResult'.op = "set" /\ StorageSetKey(key, value, FALSE)) =>
               /\ toolResult'.result = FALSE
               /\ cache' = cache
               /\ store' = store
     /\ \A key \in StorageKeys :
          (toolResult'.op = "get" /\ StorageGetKey(key, FALSE) /\ key \notin DOMAIN cache) =>
             /\ toolResult'.result = Null
             /\ cache' = cache
             /\ get(cache', store', key, TRUE).calls =
                  <<[op |-> "storage.get", el |-> key]>>
     /\ \A key \in DOMAIN cache' : cache'[key] = Get(store', key)]_vars

\* a set of a key whose write failed, answered false, while the cache holds
\* another value for the key, the one the storage holds
C40_Witness ==
  /\ StorageAnswered("set")
  /\ toolResult.result = FALSE
  /\ toolResult.key \in DOMAIN cache
  /\ cache[toolResult.key] \in StoredValues
  /\ cache[toolResult.key] # toolResult.value
  /\ cache[toolResult.key] = Get(store, toolResult.key)

====
